---- MODULE Spec2Model ----
(***************************************************************************)
(* Verification model of the benchmark scripts of libiqxmlrpc:             *)
(*   scripts/rps_benchmark.py          the concurrent load harness         *)
(*   scripts/compare_benchmarks.py     the regression comparator           *)
(*   scripts/select_minimum_results.py the cross-run aggregator            *)
(*   scripts/benchmark_utils.py        the result-file parser              *)
(*                                                                         *)
(* Specifications:                                                         *)
(*   Spec         one call of run_benchmark (coordinating thread, warmup   *)
(*                workers, measurement workers), every interleaving        *)
(*   SpecCompare  one call of compare_benchmarks on any two stores         *)
(*   SpecSelect   one call of select_minimum on any sequence of runs       *)
(*   SpecMain     one run of the comparator command on any two files       *)
(*   SpecPercentile  one call of percentile on a sorted sample sequence    *)
(*   SpecCompareSelf one call of compare_benchmarks of a store with itself *)
(*   SpecParse    one call of parse_benchmark_file on a file of text lines *)
(*   SpecAggregate one run of the aggregator command                       *)
(*   SpecConfig   one run of the comparator command or of the load command *)
(*   SpecRoundTrip write_results on a store, then parse_benchmark_file     *)
(*   SpecScenario one call of run_scenario                                 *)
(*   SpecReport   compare_benchmarks, then the sections of print_report    *)
(*   SpecFair     Spec under fair scheduling of its threads                *)
(*   SpecGate     select_minimum, then compare_benchmarks on its result    *)
(*   SpecStatistics  the BenchmarkResult of varied latency samples          *)
(*   SpecSelectAny   select_minimum on runs that may hold a nan value       *)
(***************************************************************************)
EXTENDS Integers, Sequences, FiniteSets, TLC

(***************************************************************************)
(* Bounds of the model.                                                    *)
(***************************************************************************)
MaxClients == 2
MaxRequests == 2
MaxWarmup == 2
MaxKeys == 2
MaxRuns == 2
MaxLines == 2
MaxSamples == 10
MaxLevels == 3
MaxMeasured == 101

(***************************************************************************)
(* State of run_benchmark.                                                 *)
(***************************************************************************)
VARIABLES
  num_requests,     \* argument: total measured requests
  num_clients,      \* argument: number of concurrent workers
  warmup_requests,  \* argument: warmup requests
  main_pc,          \* position of the coordinating thread
  next_submit,      \* loop index i of the submitting loop
  errors,           \* the shared (nonlocal) error counter
  errors_lock,      \* holder of errors_lock: NoHolder, MainThread or a worker
  timer,            \* "unset", "running" (start_time taken), "stopped"
  all_latencies,    \* merged samples
  collected,        \* measurement futures already consumed by as_completed
  result,           \* the returned BenchmarkResult, or NoResult
  pc,               \* per worker: position in worker()
  requests_per_worker, \* per worker: the argument of worker()
  todo,             \* per worker: iterations of range() still to run
  att,              \* per worker: attempts made for the current call
  ri,               \* per worker: pass i of Transport.request, 0 or 1
  conn,             \* per worker: transport._conn ("none" or "open")
  local_latencies,  \* per worker: local_latencies
  tmp,              \* per worker: value of errors read by errors += 1
  exc,              \* per worker: the exception e bound by except, or "none"
  failures,         \* history: per phase, calls that ended in an exception
  baseline,         \* comparator: the baseline store
  current,          \* comparator: the current store
  threshold,        \* comparator: the default threshold (args.threshold)
  relaxed_threshold,  \* comparator: None or the relaxed threshold
  relaxed_benchmarks, \* comparator: None or the set of relaxed names
  report,           \* comparator: the five lists returned, or NoReport
  arg_relaxed_benchmarks, \* command: the --relaxed-benchmarks option
  baseline_file,    \* command: the file at args.baseline
  current_file,     \* command: the file at args.current
  cli_pc,           \* command: position in main(), or "call"/"returned"
  exit_status,      \* command: None or the exit status of the process
  runs,             \* aggregator: the argument of select_minimum
  minimum,          \* aggregator: the store select_minimum returned
  sel_pc,           \* aggregator: "call" or "returned"
  samples,          \* percentile: the argument sorted_data
  pct,              \* percentile: the argument p
  pct_value,        \* percentile: the value returned
  pct_pc,           \* percentile: "call" or "returned"
  parse_file,       \* parser: the file at filepath
  arg_exit_on_error,\* parser: the argument exit_on_error
  parse_out,        \* parser: how the call ended and the store, or NoParse
  parse_pc,         \* parser: "call" or "returned"
  files,            \* aggregator command: the input files, args.files
  output,           \* aggregator command: the file at args.output, or None
  agg_i,            \* aggregator command: the next input file to parse
  agg_pc,           \* aggregator command: position in main
  agg_status,       \* aggregator command: exit status, None while running
  clients,          \* load command: args.clients, its comma-separated items
  scenario,         \* load command: args.scenario
  server_up,        \* load command: whether the server answers
  client_counts,    \* load command: the parsed client counts
  rps_todo,         \* load command: client counts of the scenarios to run
  contacted,        \* load command: whether a request was sent to the server
  rps_pc,           \* load command: position in main
  rps_status,       \* load command: exit status, None while running
  rt_results,       \* round trip: the store given to write_results
  rt_file,          \* round trip: the file at filepath
  rt_parsed,        \* round trip: what parse_benchmark_file gave, or NoParse
  rt_pc,            \* round trip: "write", "parse" or "done"
  sc_counts,        \* run_scenario: the argument client_counts
  sc_next,          \* run_scenario: position of the loop in client_counts
  sc_running,       \* run_scenario: None or the level run_benchmark runs
  sc_results,       \* run_scenario: the dict results
  sc_log,           \* history: starts and returns of run_benchmark
  sc_pc,            \* run_scenario: "loop" or "returned"
  printed           \* print_report: None or the lists it has printed

hvars == <<num_requests, num_clients, warmup_requests, main_pc, next_submit,
           errors, errors_lock, timer, all_latencies, collected, result,
           pc, requests_per_worker, todo, att, ri, conn, local_latencies,
                 tmp, exc, failures>>

cvars == <<baseline, current, threshold, relaxed_threshold,
           relaxed_benchmarks, report>>

mvars == <<arg_relaxed_benchmarks, baseline_file, current_file, cli_pc,
           exit_status>>

svars == <<runs, minimum, sel_pc>>

pvars == <<samples, pct, pct_value, pct_pc>>

\* The state of the calls modelled on their own.
fvars == <<parse_file, arg_exit_on_error, parse_out, parse_pc>>

avars == <<files, output, agg_i, agg_pc, agg_status>>

lvars ==
  <<clients, scenario, server_up, client_counts, rps_todo, contacted, rps_pc,
    rps_status>>

rvars == <<rt_results, rt_file, rt_parsed, rt_pc>>

scvars == <<sc_counts, sc_next, sc_running, sc_results, sc_log, sc_pc>>

prvars == <<printed>>

\* State of the calls added to the model last.
zvars == <<scvars, prvars>>

xvars == <<pvars, fvars, avars, lvars, rvars, zvars>>

\* What run_benchmark never touches.
ovars == <<cvars, mvars, svars, xvars>>

vars == <<hvars, cvars, mvars, svars, xvars>>

Phases == {"warmup", "measure"}

\* Holders of errors_lock that are not workers, written like a worker.
NoHolder == <<"free", 0>>

MainThread == <<"main", 0>>

\* Worker i of a phase; each phase has its own ThreadPoolExecutor.
Workers == Phases \X (0 .. MaxClients - 1)

PhaseWorkers(ph) == {w \in Workers : w[1] = ph /\ w[2] < num_clients}

\* Outcome of one super().single_request(): a response; a transport-level
\* error, either "disconnect" (RemoteDisconnected, or an OSError with errno
\* ECONNRESET, ECONNABORTED or EPIPE) or "oserror" (any other OSError or
\* ConnectionError: refused, timed out); or any other exception (xmlrpc
\* Fault, ProtocolError).
Outcomes == {"ok", "disconnect", "oserror", "fault"}

\* end - start of a call, in ns.  The harness records one representative
\* latency; the statistics are checked over varied samples separately.
Latencies == {1000000}

NoResult == [none |-> TRUE]

Max(a, b) == IF a >= b THEN a ELSE b

Min(a, b) == IF a <= b THEN a ELSE b

(***************************************************************************)
(* percentile(sorted_data, p)                                              *)
(***************************************************************************)
percentileRounded(sorted_data, p) ==
  IF Len(sorted_data) = 0 THEN 0
  ELSE LET idx == Min((Len(sorted_data) * p + 50) \div 100,
                      Len(sorted_data) - 1)
       IN  sorted_data[idx + 1]

\* idx = int(len(sorted_data) * p / 100); sorted_data[min(idx, len - 1)].
\* Sequences are indexed from 1, the list from 0.
percentile(sorted_data, p) ==
  IF Len(sorted_data) = 0 THEN 0
  ELSE LET idx == Min((Len(sorted_data) * p) \div 100, Len(sorted_data) - 1)
       IN  sorted_data[idx + 1]

\* The ascending sequences a and b merged; of equal elements those of a
\* come first.
Merge(a, b) ==
  LET posA(i) == i + Cardinality({j \in 1 .. Len(b) : b[j] < a[i]})
      posB(j) == j + Cardinality({i \in 1 .. Len(a) : a[i] <= b[j]})
  IN  [p \in 1 .. Len(a) + Len(b) |->
         IF \E i \in 1 .. Len(a) : posA(i) = p
         THEN a[CHOOSE i \in 1 .. Len(a) : posA(i) = p]
         ELSE b[CHOOSE j \in 1 .. Len(b) : posB(j) = p]]

\* sorted(s) for a list of numbers: s in ascending order.
RECURSIVE sorted(_)
sorted(s) ==
  IF Len(s) <= 1 THEN s
  ELSE LET h == Len(s) \div 2
       IN  Merge(sorted(SubSeq(s, 1, h)), sorted(SubSeq(s, h + 1, Len(s))))

latencies_msUnsorted(lat) == [k \in 1 .. Len(lat) |-> lat[k] \div 1000000]

\* latencies_ms = sorted(ns / 1_000_000 for ns in all_latencies)
latencies_ms(lat) == sorted([k \in 1 .. Len(lat) |-> lat[k] \div 1000000])

(***************************************************************************)
(* Work distribution of the measurement phase.                             *)
(***************************************************************************)
requests_per_client == num_requests \div num_clients

remainder == num_requests % num_clients

extraInclusive(i) == IF i <= remainder THEN 1 ELSE 0

\* extra = 1 if i < remainder else 0
extra(i) == IF i < remainder THEN 1 ELSE 0

MeasureShare(i) == requests_per_client + extra(i)

warmup_per_clientUnfloored == warmup_requests \div num_clients

\* warmup_per_client = max(1, warmup_requests // num_clients)
warmup_per_client == Max(1, warmup_requests \div num_clients)

(***************************************************************************)
(* The coordinating thread.                                                *)
(***************************************************************************)
Spawn(w, n) ==
  /\ pc' = [pc EXCEPT ![w] = "loop"]
  /\ requests_per_worker' = [requests_per_worker EXCEPT ![w] = n]
  /\ todo' = [todo EXCEPT ![w] = n]
  /\ att' = [att EXCEPT ![w] = 0]
  /\ local_latencies' = [local_latencies EXCEPT ![w] = <<>>]
  /\ UNCHANGED <<ri, conn, tmp, exc>>

\* if warmup_requests > 0: ... else fall through to the reset
MainStart ==
  /\ main_pc = "start"
  /\ main_pc' = IF warmup_requests > 0 THEN "warmup_submit" ELSE "reset_acquire"
  /\ UNCHANGED <<ovars, num_requests, num_clients, warmup_requests, next_submit,
                 errors, errors_lock, timer, all_latencies, collected, result,
                 pc, requests_per_worker, todo, att, ri, conn, local_latencies,
                 tmp, exc, failures>>

\* executor.map submits worker(warmup_per_client, is_warmup=True) once per
\* element of range(num_clients); a submitted worker starts at once.
WarmupSubmit ==
  /\ main_pc = "warmup_submit"
  /\ IF next_submit < num_clients
     THEN /\ Spawn(<<"warmup", next_submit>>, warmup_per_client)
          /\ next_submit' = next_submit + 1
          /\ UNCHANGED main_pc
     ELSE /\ main_pc' = "warmup_join"
          /\ next_submit' = 0
          /\ UNCHANGED <<pc, requests_per_worker, todo, att, ri, conn, local_latencies, tmp, exc>>
  /\ UNCHANGED <<ovars, num_requests, num_clients, warmup_requests,
                 errors, errors_lock, timer, all_latencies, collected, result,
                 failures>>

WarmupNotAwaited == TRUE

WarmupDone == \A w \in PhaseWorkers("warmup") : pc[w] = "done"

\* Leaving the with block: executor.shutdown(wait=True).
WarmupJoin ==
  /\ main_pc = "warmup_join"
  /\ WarmupDone
  /\ main_pc' = "reset_acquire"
  /\ UNCHANGED <<ovars, num_requests, num_clients, warmup_requests, next_submit,
                 errors, errors_lock, timer, all_latencies, collected, result,
                 pc, requests_per_worker, todo, att, ri, conn, local_latencies,
                 tmp, exc, failures>>

LockIgnored == TRUE

\* errors_lock can be acquired.
LockFree == errors_lock = NoHolder

\* with errors_lock:
ResetAcquire ==
  /\ main_pc = "reset_acquire"
  /\ LockFree
  /\ errors_lock' = MainThread
  /\ main_pc' = "reset_write"
  /\ UNCHANGED <<ovars, num_requests, num_clients, warmup_requests, next_submit,
                 errors, timer, all_latencies, collected, result,
                 pc, requests_per_worker, todo, att, ri, conn, local_latencies,
                 tmp, exc, failures>>

ResetSkipped ==
  /\ main_pc = "reset_write"
  /\ errors_lock' = NoHolder
  /\ main_pc' = "start_timer"
  /\ UNCHANGED <<ovars, num_requests, num_clients, warmup_requests, next_submit,
                 errors, timer, all_latencies, collected, result,
                 pc, requests_per_worker, todo, att, ri, conn, local_latencies,
                 tmp, exc, failures>>

\*     errors = 0
ResetWrite ==
  /\ main_pc = "reset_write"
  /\ errors' = 0
  /\ errors_lock' = NoHolder
  /\ main_pc' = "start_timer"
  /\ UNCHANGED <<ovars, num_requests, num_clients, warmup_requests, next_submit,
                 timer, all_latencies, collected, result,
                 pc, requests_per_worker, todo, att, ri, conn, local_latencies,
                 tmp, exc, failures>>

\* start_time = time.perf_counter()
StartTimer ==
  /\ main_pc = "start_timer"
  /\ timer' = "running"
  /\ main_pc' = "submit"
  /\ next_submit' = 0
  /\ UNCHANGED <<ovars, num_requests, num_clients, warmup_requests,
                 errors, errors_lock, all_latencies, collected, result,
                 pc, requests_per_worker, todo, att, ri, conn, local_latencies,
                 tmp, exc, failures>>

\* for i in range(num_clients): futures.append(executor.submit(worker, ...))
MeasureSubmit ==
  /\ main_pc = "submit"
  /\ IF next_submit < num_clients
     THEN /\ Spawn(<<"measure", next_submit>>, MeasureShare(next_submit))
          /\ next_submit' = next_submit + 1
          /\ UNCHANGED main_pc
     ELSE /\ main_pc' = "collect"
          /\ UNCHANGED <<next_submit, pc, requests_per_worker, todo, att, ri, conn, local_latencies, tmp, exc>>
  /\ UNCHANGED <<ovars, num_requests, num_clients, warmup_requests,
                 errors, errors_lock, timer, all_latencies, collected, result,
                 failures>>

CollectReplaces(w) ==
  /\ main_pc = "collect"
  /\ w \in PhaseWorkers("measure") \ collected
  /\ pc[w] = "done"
  /\ all_latencies' = local_latencies[w]
  /\ collected' = collected \cup {w}
  /\ UNCHANGED <<ovars, num_requests, num_clients, warmup_requests, main_pc,
                 next_submit, errors, errors_lock, timer, result,
                 pc, requests_per_worker, todo, att, ri, conn, local_latencies,
                 tmp, exc, failures>>

\* for future in as_completed(futures): all_latencies.extend(future.result())
Collect(w) ==
  /\ main_pc = "collect"
  /\ w \in PhaseWorkers("measure") \ collected
  /\ pc[w] = "done"
  /\ all_latencies' = all_latencies \o local_latencies[w]
  /\ collected' = collected \cup {w}
  /\ UNCHANGED <<ovars, num_requests, num_clients, warmup_requests, main_pc,
                 next_submit, errors, errors_lock, timer, result,
                 pc, requests_per_worker, todo, att, ri, conn, local_latencies,
                 tmp, exc, failures>>

StopTimerEarly ==
  /\ main_pc = "collect"
  /\ timer' = "stopped"
  /\ main_pc' = "result"
  /\ UNCHANGED <<ovars, num_requests, num_clients, warmup_requests, next_submit,
                 errors, errors_lock, all_latencies, collected, result,
                 pc, requests_per_worker, todo, att, ri, conn, local_latencies,
                 tmp, exc, failures>>

\* as_completed is exhausted, the with block is left; end_time is taken.
StopTimer ==
  /\ main_pc = "collect"
  /\ collected = PhaseWorkers("measure")
  /\ timer' = "stopped"
  /\ main_pc' = "result"
  /\ UNCHANGED <<ovars, num_requests, num_clients, warmup_requests, next_submit,
                 errors, errors_lock, all_latencies, collected, result,
                 pc, requests_per_worker, todo, att, ri, conn, local_latencies,
                 tmp, exc, failures>>

BenchmarkResultNoErrors(lat, errs) ==
  LET successful_requests == Len(lat)
      ms == latencies_ms(lat)
  IN  IF successful_requests = 0
      THEN [rps |-> 0, total_requests |-> 0,
            p50_ms |-> 0, p90_ms |-> 0, p95_ms |-> 0, p99_ms |-> 0,
            min_ms |-> 0, max_ms |-> 0, errors |-> 0]
      ELSE [rps |-> successful_requests,
            total_requests |-> successful_requests,
            p50_ms |-> percentile(ms, 50), p90_ms |-> percentile(ms, 90),
            p95_ms |-> percentile(ms, 95), p99_ms |-> percentile(ms, 99),
            min_ms |-> ms[1], max_ms |-> ms[Len(ms)], errors |-> errs]

\* The BenchmarkResult of lines 178-204.  elapsed is one abstract unit of
\* wall-clock time, so rps is the number of successful requests.
BenchmarkResult(lat, errs) ==
  LET successful_requests == Len(lat)
      ms == latencies_ms(lat)
  IN  IF successful_requests = 0
      THEN [rps |-> 0, total_requests |-> 0,
            p50_ms |-> 0, p90_ms |-> 0, p95_ms |-> 0, p99_ms |-> 0,
            min_ms |-> 0, max_ms |-> 0, errors |-> errs]
      ELSE [rps |-> successful_requests,
            total_requests |-> successful_requests,
            p50_ms |-> percentile(ms, 50), p90_ms |-> percentile(ms, 90),
            p95_ms |-> percentile(ms, 95), p99_ms |-> percentile(ms, 99),
            min_ms |-> ms[1], max_ms |-> ms[Len(ms)], errors |-> errs]

Return ==
  /\ main_pc = "result"
  /\ result' = BenchmarkResult(all_latencies, errors)
  /\ main_pc' = "done"
  /\ UNCHANGED <<ovars, num_requests, num_clients, warmup_requests, next_submit,
                 errors, errors_lock, timer, all_latencies, collected,
                 pc, requests_per_worker, todo, att, ri, conn, local_latencies,
                 tmp, exc, failures>>

(***************************************************************************)
(* worker(requests_per_worker, is_warmup)                                  *)
(***************************************************************************)
is_warmup(w) == w[1] = "warmup"

WorkerUnchanged ==
  UNCHANGED <<ovars, num_requests, num_clients, warmup_requests, main_pc,
              next_submit, timer, all_latencies, collected, result,
              requests_per_worker>>

SuccessUnrecorded(w, ns) ==
  /\ pc' = [pc EXCEPT ![w] = "loop"]
  /\ att' = [att EXCEPT ![w] = 0]
  /\ ri' = [ri EXCEPT ![w] = 0]
  /\ UNCHANGED <<local_latencies, failures, exc>>

\* The call returned: local_latencies.append(end - start) unless warmup.
Success(w, ns) ==
  /\ pc' = [pc EXCEPT ![w] = "loop"]
  /\ att' = [att EXCEPT ![w] = 0]
  /\ ri' = [ri EXCEPT ![w] = 0]
  /\ local_latencies' =
       IF is_warmup(w) THEN local_latencies
       ELSE [local_latencies EXCEPT ![w] = Append(@, ns)]
  /\ UNCHANGED <<failures, exc>>

RaiseRecorded(w, o, n) ==
  /\ pc' = [pc EXCEPT ![w] = "except"]
  /\ att' = [att EXCEPT ![w] = n]
  /\ ri' = [ri EXCEPT ![w] = 0]
  /\ exc' = [exc EXCEPT ![w] = o]
  /\ failures' = [failures EXCEPT ![w[1]] = @ + 1]
  /\ local_latencies' =
       [local_latencies EXCEPT ![w] = Append(@, CHOOSE ns \in Latencies : TRUE)]

\* The call raised exception o into the worker's "except Exception as e",
\* after n attempts.
Raise(w, o, n) ==
  /\ pc' = [pc EXCEPT ![w] = "except"]
  /\ att' = [att EXCEPT ![w] = n]
  /\ ri' = [ri EXCEPT ![w] = 0]
  /\ exc' = [exc EXCEPT ![w] = o]
  /\ failures' = [failures EXCEPT ![w[1]] = @ + 1]
  /\ UNCHANGED local_latencies

transportOfPool(w) == <<w[1], 0>>

\* transport = KeepAliveTransport(host, port): every invocation of worker
\* creates its own transport object, named here by the invocation; conn is
\* the _conn of that object, None ("none") when it is created.
transport(w) == w

\* make_connection: the persistent connection, created when there is none.
make_connection(c) == IF c = "none" THEN "open" ELSE c

\* KeepAliveTransport.close
close(c) == "none"

\* except (http.client.RemoteDisconnected, ConnectionError, OSError):
IsTransportError(o) == o \in {"disconnect", "oserror"}

\* KeepAliveTransport inherits request() from xmlrpc.client.Transport, and
\* proxy.<method>(payload) goes through it:
\*     for i in (0, 1):
\*         try: return self.single_request(...)
\*         except RemoteDisconnected:  if i: raise
\*         except OSError as e:
\*             if i or e.errno not in (ECONNRESET, ECONNABORTED, EPIPE): raise
\* It calls single_request a second time after such an error of its first
\* pass.
RequestRetries(i, o) == i = 0 /\ o = "disconnect"

\* One pass of KeepAliveTransport.single_request up to the outcome of its
\* first super().single_request().  A transport-level error is caught: the
\* connection is closed (self.close()) and the pass goes on to its retry.
Attempt(w, o, ns) ==
  IF o = "ok"
  THEN /\ Success(w, ns)
       /\ conn' = [conn EXCEPT ![transport(w)] = make_connection(@)]
  ELSE IF IsTransportError(o)
  THEN /\ pc' = [pc EXCEPT ![w] = "retry"]
       /\ att' = [att EXCEPT ![w] = @ + 1]
       /\ conn' = [conn EXCEPT ![transport(w)] = close(make_connection(@))]
       /\ UNCHANGED <<ri, local_latencies, failures, exc>>
  ELSE /\ Raise(w, o, att[w] + 1)
       /\ conn' = [conn EXCEPT ![transport(w)] = make_connection(@)]

\* for _ in range(requests_per_worker): getattr(proxy, method)(payload),
\* the first pass of request().
FirstAttempt(w, o, ns) ==
  /\ pc[w] = "loop"
  /\ todo[w] > 0
  /\ todo' = [todo EXCEPT ![w] = @ - 1]
  /\ Attempt(w, o, ns)
  /\ UNCHANGED <<errors, errors_lock, tmp>>
  /\ WorkerUnchanged

\* The second pass of request().
SecondPass(w, o, ns) ==
  /\ pc[w] = "again"
  /\ Attempt(w, o, ns)
  /\ UNCHANGED <<errors, errors_lock, todo, tmp>>
  /\ WorkerUnchanged

\*     return super().single_request(...): the retry of the pass.  Whatever
\*     it raises leaves single_request; super().single_request() has closed
\*     the connection unless it raised a Fault.
Retry(w, o, ns) ==
  /\ pc[w] = "retry"
  /\ IF o = "ok"
     THEN /\ Success(w, ns)
          /\ conn' = [conn EXCEPT ![transport(w)] = make_connection(@)]
     ELSE IF RequestRetries(ri[w], o)
     THEN /\ pc' = [pc EXCEPT ![w] = "again"]
          /\ ri' = [ri EXCEPT ![w] = 1]
          /\ att' = [att EXCEPT ![w] = @ + 1]
          /\ conn' = [conn EXCEPT ![transport(w)] = close(make_connection(@))]
          /\ UNCHANGED <<local_latencies, failures, exc>>
     ELSE /\ Raise(w, o, att[w] + 1)
          /\ conn' = [conn EXCEPT ![transport(w)] =
                        IF IsTransportError(o) THEN close(make_connection(@))
                        ELSE make_connection(@)]
  /\ UNCHANGED <<errors, errors_lock, todo, tmp>>
  /\ WorkerUnchanged

\* with errors_lock:
\*     errors += 1   (the read of errors, with the lock held)
Acquire(w) ==
  /\ pc[w] = "except"
  /\ LockFree
  /\ errors_lock' = w
  /\ tmp' = [tmp EXCEPT ![w] = errors]
  /\ pc' = [pc EXCEPT ![w] = "store"]
  /\ UNCHANGED <<errors, todo, att, ri, conn, local_latencies, exc, failures>>
  /\ WorkerUnchanged

StoreKeepsLock(w) ==
  /\ pc[w] = "store"
  /\ errors' = tmp[w] + 1
  /\ tmp' = [tmp EXCEPT ![w] = 0]
  /\ att' = [att EXCEPT ![w] = 0]
  /\ exc' = [exc EXCEPT ![w] = "none"]
  /\ pc' = [pc EXCEPT ![w] = "loop"]
  /\ UNCHANGED <<errors_lock, todo, ri, conn, local_latencies, failures>>
  /\ WorkerUnchanged

\*     errors += 1   (the write); the with block and the except clause
\*     are left.
Store(w) ==
  /\ pc[w] = "store"
  /\ errors' = tmp[w] + 1
  /\ errors_lock' = IF errors_lock = w THEN NoHolder ELSE errors_lock
  /\ tmp' = [tmp EXCEPT ![w] = 0]
  /\ att' = [att EXCEPT ![w] = 0]
  /\ exc' = [exc EXCEPT ![w] = "none"]
  /\ pc' = [pc EXCEPT ![w] = "loop"]
  /\ UNCHANGED <<todo, ri, conn, local_latencies, failures>>
  /\ WorkerUnchanged

FinallyLeavesOpen(w) ==
  /\ pc[w] = "loop"
  /\ todo[w] = 0
  /\ pc' = [pc EXCEPT ![w] = "done"]
  /\ UNCHANGED <<errors, errors_lock, todo, att, ri, conn, local_latencies, tmp,
                 exc, failures>>
  /\ WorkerUnchanged

\* finally: transport.close(); return local_latencies
Finally(w) ==
  /\ pc[w] = "loop"
  /\ todo[w] = 0
  /\ conn' = [conn EXCEPT ![transport(w)] = "none"]
  /\ pc' = [pc EXCEPT ![w] = "done"]
  /\ UNCHANGED <<errors, errors_lock, todo, att, ri, local_latencies, tmp, exc, failures>>
  /\ WorkerUnchanged

WorkerStep(w) ==
  \/ \E o \in Outcomes, ns \in Latencies : FirstAttempt(w, o, ns)
  \/ \E o \in Outcomes, ns \in Latencies : SecondPass(w, o, ns)
  \/ \E o \in Outcomes, ns \in Latencies : Retry(w, o, ns)
  \/ Acquire(w)
  \/ Store(w)
  \/ Finally(w)

\* The locals of run_benchmark before its first statement.
HarnessStart(at) ==
  /\ main_pc = at
  /\ next_submit = 0
  /\ errors = 0
  /\ errors_lock = NoHolder
  /\ timer = "unset"
  /\ all_latencies = <<>>
  /\ collected = {}
  /\ result = NoResult
  /\ pc = [w \in Workers |-> "absent"]
  /\ requests_per_worker = [w \in Workers |-> 0]
  /\ todo = [w \in Workers |-> 0]
  /\ att = [w \in Workers |-> 0]
  /\ ri = [w \in Workers |-> 0]
  /\ conn = [w \in Workers |-> "none"]
  /\ local_latencies = [w \in Workers |-> <<>>]
  /\ tmp = [w \in Workers |-> 0]
  /\ exc = [w \in Workers |-> "none"]
  /\ failures = [ph \in Phases |-> 0]

(***************************************************************************)
(* Result stores.  A Dict[str, float] is the sequence of its (name, value) *)
(* items in insertion order, with distinct names.  None is the empty       *)
(* tuple and a supplied optional value x is <<x>>.                         *)
(***************************************************************************)
None == <<>>

Some(x) == <<x>>

Val(o) == o[1]

SeqsUpTo(S, n) == UNION {[1 .. k -> S] : k \in 0 .. n}

Keys(d) == {d[k][1] : k \in 1 .. Len(d)}

\* name in d
Has(d, name) == name \in Keys(d)

\* d[name]
Get(d, name) == d[CHOOSE k \in 1 .. Len(d) : d[k][1] = name][2]

\* float('nan'): a float for which every comparison is false.
NaN == -999999999

\* Python's == and < on floats.
FloatEq(x, y) == x # NaN /\ y # NaN /\ x = y

FloatLt(x, y) == x # NaN /\ y # NaN /\ x < y

PutFirst(d, name, value) ==
  IF Has(d, name) THEN d ELSE Append(d, <<name, value>>)

\* d[name] = value: an existing key keeps its position.
Put(d, name, value) ==
  IF Has(d, name)
  THEN [k \in 1 .. Len(d) |-> IF d[k][1] = name THEN <<name, value>> ELSE d[k]]
  ELSE Append(d, <<name, value>>)

Dicts(N, V, n) ==
  {d \in SeqsUpTo(N \X V, n) :
     \A j, k \in 1 .. Len(d) : d[j][1] = d[k][1] => j = k}

(***************************************************************************)
(* benchmark_utils.parse_benchmark_file                                    *)
(*                                                                         *)
(* A file is its status, the number of blank or comment lines it starts    *)
(* with (lead) and the lines that follow.  status "missing": open raises   *)
(* FileNotFoundError; "ioerror": an OSError is raised after the listed     *)
(* lines were read; "undecodable": the bytes after the listed lines are    *)
(* not valid text, reading them raises UnicodeDecodeError.  A line is      *)
(* classified by the branch of the loop it takes.                          *)
(***************************************************************************)
MAX_LINES == 10000

LineKinds == {"blank", "nocolon", "emptyname", "badvalue", "valid"}

Line(kind, name, value) == [kind |-> kind, name |-> name, value |-> value]

File(status, lead, lines) == [status |-> status, lead |-> lead, lines |-> lines]

RECURSIVE ParseLinesAbort(_, _, _)
ParseLinesAbort(file, k, results) ==
  IF k > Len(file.lines) THEN results
  ELSE IF file.lead + k - 1 >= MAX_LINES THEN results
  ELSE IF file.lines[k].kind = "valid"
  THEN ParseLinesAbort(file, k + 1,
                       Put(results, file.lines[k].name, file.lines[k].value))
  ELSE IF file.lines[k].kind = "blank"
  THEN ParseLinesAbort(file, k + 1, results)
  ELSE results

RECURSIVE ParseLinesOfData(_, _, _)
ParseLinesOfData(file, k, results) ==
  IF k > Len(file.lines) THEN results
  ELSE IF k - 1 >= MAX_LINES THEN results
  ELSE IF file.lines[k].kind = "valid"
  THEN ParseLinesOfData(file, k + 1,
                        Put(results, file.lines[k].name, file.lines[k].value))
  ELSE ParseLinesOfData(file, k + 1, results)

\* The loop "for i, line in enumerate(f)" from the k-th listed line on.
RECURSIVE ParseLines(_, _, _)
ParseLines(file, k, results) ==
  IF k > Len(file.lines) THEN results
  ELSE IF file.lead + k - 1 >= MAX_LINES THEN results
  ELSE IF file.lines[k].kind = "valid"
  THEN ParseLines(file, k + 1,
                  Put(results, file.lines[k].name, file.lines[k].value))
  ELSE ParseLines(file, k + 1, results)

\* The failing read is reached unless the loop has stopped at MAX_LINES.
ReadFails(file) ==
  /\ file.status \in {"ioerror", "undecodable"}
  /\ file.lead + Len(file.lines) <= MAX_LINES

\* How the call ends: "return"; "exit" (sys.exit(2)); "raise" (an exception
\* no except clause of the function names, a ValueError from the decoder).
parse_benchmark_file(file, exit_on_error) ==
  IF file.status = "missing"
  THEN [results |-> <<>>,
        end |-> IF exit_on_error THEN "exit" ELSE "return"]
  ELSE [results |-> ParseLines(file, 1, <<>>),
        end |-> IF ~ReadFails(file) THEN "return"
                ELSE IF file.status = "undecodable" THEN "raise"
                ELSE IF exit_on_error THEN "exit" ELSE "return"]

(***************************************************************************)
(* Lines as text.  A str is the sequence of its characters; the model's    *)
(* characters are the space, '#', ':', '-', '.', the digits and letters.   *)
(* A float is a fixed-point number in thousandths, or NaN.                 *)
(***************************************************************************)
Whitespace == {" "}

DigitChars == <<"0", "1", "2", "3", "4", "5", "6", "7", "8", "9">>

IsDigit(c) == \E k \in 1 .. 10 : DigitChars[k] = c

DigitValue(c) == (CHOOSE k \in 1 .. 10 : DigitChars[k] = c) - 1

AllDigits(t) == \A k \in 1 .. Len(t) : IsDigit(t[k])

\* The value of a string of decimal digits.
RECURSIVE Number(_)
Number(ds) ==
  IF ds = <<>> THEN 0
  ELSE Number(SubSeq(ds, 1, Len(ds) - 1)) * 10 + DigitValue(ds[Len(ds)])

RECURSIVE lstrip(_)
lstrip(t) ==
  IF t # <<>> /\ Head(t) \in Whitespace THEN lstrip(Tail(t)) ELSE t

RECURSIVE rstrip(_)
rstrip(t) ==
  IF t # <<>> /\ t[Len(t)] \in Whitespace
  THEN rstrip(SubSeq(t, 1, Len(t) - 1))
  ELSE t

\* str.strip()
strip(t) == rstrip(lstrip(t))

\* str.find(c) + 1: the position of the first c in t, 0 when there is none.
Find(t, c) ==
  IF \E k \in 1 .. Len(t) : t[k] = c
  THEN CHOOSE k \in 1 .. Len(t) : t[k] = c /\ \A j \in 1 .. k - 1 : t[j] # c
  ELSE 0

\* Thousandths written by up to three fraction digits.
Fraction(fp) ==
  Number(fp) * (IF Len(fp) = 0 THEN 0
                ELSE IF Len(fp) = 1 THEN 100
                ELSE IF Len(fp) = 2 THEN 10 ELSE 1)

\* float(t): None for ValueError, else the value.  The literals of the
\* model are [-]digits[.digits] with at most three fraction digits, and nan.
float(t) ==
  LET u == strip(t)
      neg == u # <<>> /\ Head(u) = "-"
      body == IF neg THEN Tail(u) ELSE u
      dot == Find(body, ".")
      ip == IF dot = 0 THEN body ELSE SubSeq(body, 1, dot - 1)
      fp == IF dot = 0 THEN <<>> ELSE SubSeq(body, dot + 1, Len(body))
  IN  IF body = <<"n", "a", "n">> THEN Some(NaN)
      ELSE IF AllDigits(ip) /\ AllDigits(fp) /\ (ip # <<>> \/ fp # <<>>)
      THEN Some((IF neg THEN -1 ELSE 1) * (Number(ip) * 1000 + Fraction(fp)))
      ELSE None

\* The branch of the loop body (lines 45-68) a line of text takes.
ClassifyLine(t) ==
  LET line == strip(t)
      colon == Find(line, ":")
      name == strip(SubSeq(line, 1, colon - 1))
      value == float(strip(SubSeq(line, colon + 1, Len(line))))
  IN  IF line = <<>> \/ Head(line) = "#" THEN Line("blank", <<>>, 0)
      ELSE IF colon = 0 THEN Line("nocolon", <<>>, 0)
      ELSE IF name = <<>> THEN Line("emptyname", <<>>, 0)
      ELSE IF value = None THEN Line("badvalue", name, 0)
      ELSE Line("valid", name, Val(value))

\* A file given by the text of its lines.
TextFile(status, lead, texts) ==
  [status |-> status, lead |-> lead,
   lines |-> [k \in 1 .. Len(texts) |-> ClassifyLine(texts[k])],
   text |-> texts]

NoParse == [none |-> TRUE]

\* A direct call of parse_benchmark_file(filepath, exit_on_error).
ParseFile ==
  /\ parse_pc = "call"
  /\ parse_out' = parse_benchmark_file(parse_file, arg_exit_on_error)
  /\ parse_pc' = "returned"
  /\ UNCHANGED <<zvars, hvars, cvars, mvars, svars, pvars, avars, lvars, rvars,
                 parse_file,
                 arg_exit_on_error>>

(***************************************************************************)
(* compare_benchmarks.compare_benchmarks                                   *)
(***************************************************************************)
NoReport == [none |-> TRUE]

NamesNotInPositive(xs, ys) ==
  LET items == SelectSeq(xs, LAMBDA p : ~Has(ys, p[1]) /\ p[2] > 0)
  IN  [k \in 1 .. Len(items) |-> items[k][1]]

\* [name for name in xs if name not in ys]
NamesNotIn(xs, ys) ==
  LET items == SelectSeq(xs, LAMBDA p : ~Has(ys, p[1]))
  IN  [k \in 1 .. Len(items) |-> items[k][1]]

SkippedZeroOnly(baseline_ns, current_ns) == baseline_ns = 0 \/ current_ns = 0

\* if baseline_ns <= 0 or current_ns <= 0: continue
Skipped(baseline_ns, current_ns) == baseline_ns <= 0 \/ current_ns <= 0

delta_percentRatio(baseline_ns, current_ns) ==
  [num |-> current_ns * 100, den |-> baseline_ns]

\* ((current_ns - baseline_ns) / baseline_ns) * 100, kept as an exact
\* fraction; its denominator baseline_ns is positive.
delta_percent(baseline_ns, current_ns) ==
  [num |-> (current_ns - baseline_ns) * 100, den |-> baseline_ns]

\* q > t and q < t for a fraction q with positive denominator.
Gt(q, t) == q.num > t * q.den

Lt(q, t) == q.num < t * q.den

effective_thresholdAny(name, thr, relaxed_thr, relaxed_set) ==
  IF relaxed_thr # None THEN Val(relaxed_thr) ELSE thr

\* effective_threshold = threshold
\* if relaxed_threshold is not None and name in relaxed_benchmarks: ...
effective_threshold(name, thr, relaxed_thr, relaxed_set) ==
  IF /\ relaxed_thr # None
     /\ name \in (IF relaxed_set = None THEN {} ELSE Val(relaxed_set))
  THEN Val(relaxed_thr)
  ELSE thr

\* entry = (name, baseline_ns, current_ns, delta_percent, effective_threshold)
Entry(name, baseline_ns, current_ns, thr, relaxed_thr, relaxed_set) ==
  <<name, baseline_ns, current_ns, delta_percent(baseline_ns, current_ns),
    effective_threshold(name, thr, relaxed_thr, relaxed_set)>>

ClassInclusive(e) ==
  IF e[4].num >= e[5] * e[4].den THEN "regressions"
  ELSE IF e[4].num <= (-e[5]) * e[4].den THEN "improvements"
  ELSE "unchanged"

ClassUnsigned(e) ==
  IF Gt(e[4], e[5]) THEN "regressions"
  ELSE IF Lt(e[4], e[5]) THEN "improvements"
  ELSE "unchanged"

\* if delta_percent > effective_threshold: ... elif ... < -effective_threshold
Class(e) ==
  IF Gt(e[4], e[5]) THEN "regressions"
  ELSE IF Lt(e[4], -e[5]) THEN "improvements"
  ELSE "unchanged"

EntriesHeadOnly(base, cur, thr, relaxed_thr, relaxed_set) ==
  LET items == SelectSeq(SubSeq(cur, 1, Min(1, Len(cur))), LAMBDA p :
                 Has(base, p[1]) /\ ~Skipped(Get(base, p[1]), p[2]))
  IN  [k \in 1 .. Len(items) |->
         Entry(items[k][1], Get(base, items[k][1]), items[k][2],
               thr, relaxed_thr, relaxed_set)]

\* The entries the loop over current.items() builds, in that order.
Entries(base, cur, thr, relaxed_thr, relaxed_set) ==
  LET items == SelectSeq(cur, LAMBDA p :
                 Has(base, p[1]) /\ ~Skipped(Get(base, p[1]), p[2]))
  IN  [k \in 1 .. Len(items) |->
         Entry(items[k][1], Get(base, items[k][1]), items[k][2],
               thr, relaxed_thr, relaxed_set)]

compare_benchmarks(base, cur, thr, relaxed_thr, relaxed_set) ==
  LET es == Entries(base, cur, thr, relaxed_thr, relaxed_set)
  IN  [regressions |-> SelectSeq(es, LAMBDA e : Class(e) = "regressions"),
       improvements |-> SelectSeq(es, LAMBDA e : Class(e) = "improvements"),
       unchanged |-> SelectSeq(es, LAMBDA e : Class(e) = "unchanged"),
       new_benchmarks |-> NamesNotIn(cur, base),
       missing_benchmarks |-> NamesNotIn(base, cur)]

\* A direct call of compare_benchmarks with the arguments of the state.
Compare ==
  /\ cli_pc = "call"
  /\ report = NoReport
  /\ report' = compare_benchmarks(baseline, current, threshold,
                                  relaxed_threshold, relaxed_benchmarks)
  /\ cli_pc' = "returned"
  /\ UNCHANGED <<hvars, svars, xvars, baseline, current, threshold,
                 relaxed_threshold, relaxed_benchmarks,
                 arg_relaxed_benchmarks, baseline_file, current_file,
                 exit_status>>

(***************************************************************************)
(* compare_benchmarks.print_report: the order of the lines of each section *)
(***************************************************************************)
\* p < q for two deltas (fractions with positive denominators).
DeltaLt(p, q) == p.num * q.den < q.num * p.den

\* key(x) < key(y) for the keys x[3] (sign = 1) and -x[3] (sign = -1).
KeyLt(x, y, sign) ==
  IF sign = 1 THEN DeltaLt(x[4], y[4]) ELSE DeltaLt(y[4], x[4])

sortedByDeltaAsGiven(entries, sign) == entries

\* x, which came before every element of the sorted s, takes its place in
\* s: before the first element whose key is not less than its own.
RECURSIVE InsertByDelta(_, _, _)
InsertByDelta(x, s, sign) ==
  IF s = <<>> THEN <<x>>
  ELSE IF KeyLt(Head(s), x, sign)
  THEN <<Head(s)>> \o InsertByDelta(x, Tail(s), sign)
  ELSE <<x>> \o s

\* sorted(entries, key=lambda x: sign * x[3]); sorted is stable.
RECURSIVE sortedByDelta(_, _)
sortedByDelta(entries, sign) ==
  IF entries = <<>> THEN <<>>
  ELSE InsertByDelta(Head(entries), sortedByDelta(Tail(entries), sign), sign)

\* The names of the comparator's stores in the order of str.
NameOrder == <<"a", "b", "r">>

NameLt(m, n) ==
  (CHOOSE k \in 1 .. Len(NameOrder) : NameOrder[k] = m)
    < (CHOOSE k \in 1 .. Len(NameOrder) : NameOrder[k] = n)

RECURSIVE InsertName(_, _)
InsertName(n, s) ==
  IF s = <<>> THEN <<n>>
  ELSE IF NameLt(Head(s), n) THEN <<Head(s)>> \o InsertName(n, Tail(s))
  ELSE <<n>> \o s

\* sorted(names)
RECURSIVE sorted_names(_)
sorted_names(names) ==
  IF names = <<>> THEN <<>>
  ELSE InsertName(Head(names), sorted_names(Tail(names)))

\* The entries and names print_report prints, section by section, in the
\* order of their lines.
print_report(rep) ==
  [regressions |-> sortedByDelta(rep.regressions, -1),
   improvements |-> sortedByDelta(rep.improvements, 1),
   new_benchmarks |-> sorted_names(rep.new_benchmarks),
   missing_benchmarks |-> sorted_names(rep.missing_benchmarks)]

\* print_report(regressions, improvements, unchanged, new_benchmarks,
\* missing_benchmarks, ...) on what compare_benchmarks returned.
PrintReport ==
  /\ cli_pc = "returned"
  /\ report # NoReport
  /\ printed = None
  /\ printed' = Some(print_report(report))
  /\ UNCHANGED <<hvars, cvars, mvars, svars, pvars, fvars, avars, lvars, rvars,
                 scvars>>

(***************************************************************************)
(* select_minimum_results.select_minimum                                   *)
(***************************************************************************)
\* set().union(*(run.keys() for run in runs))
all_names(rs) == UNION {Keys(rs[k]) : k \in 1 .. Len(rs)}

\* The orders in which "for name in all_names" can iterate the set.
Orders(S) ==
  {s \in [1 .. Cardinality(S) -> S] :
     \A j, k \in 1 .. Cardinality(S) : s[j] = s[k] => j = k}

valuesOfFirst(rs, name) ==
  LET having == SelectSeq(rs, LAMBDA run : Has(run, name))
  IN  <<Get(having[1], name)>>

\* values = [run[name] for run in runs if name in run]
values(rs, name) ==
  LET having == SelectSeq(rs, LAMBDA run : Has(run, name))
  IN  [k \in 1 .. Len(having) |-> Get(having[k], name)]

RECURSIVE minOfLargest(_)
minOfLargest(vs) ==
  IF Len(vs) = 1 THEN vs[1]
  ELSE LET m == minOfLargest(SubSeq(vs, 1, Len(vs) - 1))
       IN  IF FloatLt(m, vs[Len(vs)]) THEN vs[Len(vs)] ELSE m

minOfLast(vs) == vs[Len(vs)]

\* min(values), values not empty: the first value that no later value is
\* less than.
RECURSIVE min(_)
min(vs) ==
  IF Len(vs) = 1 THEN vs[1]
  ELSE LET m == min(SubSeq(vs, 1, Len(vs) - 1))
       IN  IF FloatLt(vs[Len(vs)], m) THEN vs[Len(vs)] ELSE m

\* The loop over all_names, iterated in the given order.
RECURSIVE SelectLoop(_, _, _)
SelectLoop(rs, order, res) ==
  IF order = <<>> THEN res
  ELSE LET name == Head(order)
           vs == values(rs, name)
       IN  SelectLoop(rs, Tail(order),
                      IF vs # <<>> THEN Put(res, name, min(vs)) ELSE res)

select_minimum(rs, order) ==
  IF rs = <<>> THEN <<>> ELSE SelectLoop(rs, order, <<>>)

\* A direct call of select_minimum(runs).
SelectMinimum ==
  /\ sel_pc = "call"
  /\ \E order \in Orders(all_names(runs)) :
       minimum' = select_minimum(runs, order)
  /\ sel_pc' = "returned"
  /\ UNCHANGED <<hvars, cvars, mvars, xvars, runs>>

\* compare_benchmarks(baseline, select_minimum(runs), ...): the gate on the
\* aggregated store, which becomes the current store of the comparison.
CompareMinimum ==
  /\ sel_pc = "returned"
  /\ cli_pc = "call"
  /\ report = NoReport
  /\ current' = minimum
  /\ report' = compare_benchmarks(baseline, minimum, threshold,
                                  relaxed_threshold, relaxed_benchmarks)
  /\ cli_pc' = "returned"
  /\ UNCHANGED <<hvars, svars, xvars, baseline, threshold,
                 relaxed_threshold, relaxed_benchmarks,
                 arg_relaxed_benchmarks, baseline_file, current_file,
                 exit_status>>

(***************************************************************************)
(* select_minimum_results.write_results and main: the aggregator command.  *)
(***************************************************************************)
\* The characters of the model in code point order.
Alphabet ==
  <<" ", "#", "-", ".", "0", "1", "2", "3", "4", "5", "6", "7", "8", "9",
    ":", "a", "b", "n", "x">>

Ord(c) == CHOOSE k \in 1 .. Len(Alphabet) : Alphabet[k] = c

\* s < t on str
RECURSIVE StrLt(_, _)
StrLt(s, t) ==
  IF t = <<>> THEN FALSE
  ELSE IF s = <<>> THEN TRUE
  ELSE IF Head(s) # Head(t) THEN Ord(Head(s)) < Ord(Head(t))
  ELSE StrLt(Tail(s), Tail(t))

\* sorted(results.keys())
sorted_keys(results) ==
  CHOOSE order \in Orders(Keys(results)) :
    \A j, k \in 1 .. Len(order) : j < k => StrLt(order[j], order[k])

\* str(n) for n >= 0
RECURSIVE IntText(_)
IntText(n) ==
  IF n < 10 THEN <<DigitChars[n + 1]>>
  ELSE IntText(n \div 10) \o <<DigitChars[(n % 10) + 1]>>

Format2fTruncated(v) ==
  IF v = NaN THEN <<"n", "a", "n">>
  ELSE LET a == IF v < 0 THEN -v ELSE v
           h == a \div 10
       IN  (IF v < 0 THEN <<"-">> ELSE <<>>)
             \o IntText(h \div 100) \o <<".">>
             \o <<DigitChars[((h \div 10) % 10) + 1], DigitChars[(h % 10) + 1]>>

\* f"{v:.2f}", v in thousandths: the nearest hundredth, a tie going to the
\* even one.  (A float that is a tie is a multiple of 1/8.)
Format2f(v) ==
  IF v = NaN THEN <<"n", "a", "n">>
  ELSE LET a == IF v < 0 THEN -v ELSE v
           q == a \div 10
           r == a % 10
           h == IF r > 5 \/ (r = 5 /\ q % 2 = 1) THEN q + 1 ELSE q
       IN  (IF v < 0 THEN <<"-">> ELSE <<>>)
             \o IntText(h \div 100) \o <<".">>
             \o <<DigitChars[((h \div 10) % 10) + 1], DigitChars[(h % 10) + 1]>>

\* Seven comment lines; of their text only the leading '#' is kept.
HeaderLines == [k \in 1 .. 7 |-> <<"#">>]

\* f.write(f"{name}: {results[name]:.2f}\n") for the sorted names
EntryLines(results) ==
  LET names == sorted_keys(results)
  IN  [k \in 1 .. Len(names) |->
         names[k] \o <<":", " ">> \o Format2f(Get(results, names[k]))]

\* The file write_results leaves at filepath.
write_results(results, num_runs) ==
  TextFile("ok", 0, HeaderLines \o EntryLines(results))

\* One iteration of "for filepath in args.files".  A decode error leaves
\* main as an uncaught exception.
LoadRun ==
  /\ agg_pc = "parse"
  /\ agg_i <= Len(files)
  /\ LET out == parse_benchmark_file(files[agg_i], FALSE)
     IN  IF out.end = "raise"
         THEN /\ agg_pc' = "done"
              /\ agg_status' = Some(1)
              /\ UNCHANGED <<runs, agg_i>>
         ELSE /\ runs' = IF out.results # <<>>
                         THEN Append(runs, out.results) ELSE runs
              /\ agg_i' = agg_i + 1
              /\ UNCHANGED <<agg_pc, agg_status>>
  /\ UNCHANGED <<zvars, hvars, cvars, mvars, pvars, fvars, lvars, rvars, files, output, minimum,
                 sel_pc>>

\* if not runs: sys.exit(2)
CheckRuns ==
  /\ agg_pc = "parse"
  /\ agg_i > Len(files)
  /\ IF runs = <<>>
     THEN agg_pc' = "done" /\ agg_status' = Some(2)
     ELSE agg_pc' = "select" /\ UNCHANGED agg_status
  /\ UNCHANGED <<zvars, hvars, cvars, mvars, pvars, fvars, lvars, rvars, svars, files, output,
                 agg_i>>

\* minimum = select_minimum(runs); write_results(minimum, args.output,
\* len(runs)); main returns.
SelectAndWrite ==
  /\ agg_pc = "select"
  /\ \E order \in Orders(all_names(runs)) :
       /\ minimum' = select_minimum(runs, order)
       /\ output' = Some(write_results(minimum', Len(runs)))
  /\ agg_pc' = "done"
  /\ agg_status' = Some(0)
  /\ UNCHANGED <<zvars, hvars, cvars, mvars, pvars, fvars, lvars, rvars, files, agg_i, runs,
                 sel_pc>>

\* A direct call of write_results(results, filepath, num_runs).
WriteResults ==
  /\ rt_pc = "write"
  /\ rt_file' = write_results(rt_results, 1)
  /\ rt_pc' = "parse"
  /\ UNCHANGED <<zvars, hvars, cvars, mvars, svars, pvars, fvars, avars, lvars,
                 rt_results, rt_parsed>>

\* parse_benchmark_file(filepath) on the file write_results left.
ParseWritten ==
  /\ rt_pc = "parse"
  /\ \E e \in BOOLEAN : rt_parsed' = parse_benchmark_file(rt_file, e)
  /\ rt_pc' = "done"
  /\ UNCHANGED <<zvars, hvars, cvars, mvars, svars, pvars, fvars, avars, lvars,
                 rt_results, rt_file>>

(***************************************************************************)
(* rps_benchmark.run_scenario.  A call of run_benchmark, which Spec        *)
(* follows step by step, is two steps here: its start and its return.      *)
(***************************************************************************)
RunNotAwaited == TRUE

\* No call of run_benchmark is in progress.
RunReturned == sc_running = None

\* What run_benchmark may return: a result with samples, or the result of
\* a run without samples.
RunResults ==
  {BenchmarkResult(<<CHOOSE ns \in Latencies : TRUE>>, 0),
   BenchmarkResult(<<>>, 1)}

\* for num_clients in client_counts: result = run_benchmark(...)
ScenarioRun ==
  /\ sc_pc = "loop"
  /\ RunReturned
  /\ sc_next <= Len(sc_counts)
  /\ sc_running' = Some(sc_counts[sc_next])
  /\ sc_log' = Append(sc_log, <<"start", sc_counts[sc_next]>>)
  /\ UNCHANGED <<hvars, cvars, mvars, svars, pvars, fvars, avars, lvars, rvars,
                 prvars,
                 sc_counts, sc_next, sc_results, sc_pc>>

\* run_benchmark returns; results[num_clients] = result
ScenarioStore ==
  /\ sc_pc = "loop"
  /\ sc_running # None
  /\ \E r \in RunResults :
       /\ sc_results' = Put(sc_results, Val(sc_running), r)
       /\ sc_log' = Append(sc_log, <<"return", Val(sc_running), r>>)
  /\ sc_running' = None
  /\ sc_next' = sc_next + 1
  /\ UNCHANGED <<hvars, cvars, mvars, svars, pvars, fvars, avars, lvars, rvars,
                 prvars,
                 sc_counts, sc_pc>>

\* return results
ScenarioReturn ==
  /\ sc_pc = "loop"
  /\ RunReturned
  /\ sc_next > Len(sc_counts)
  /\ sc_pc' = "returned"
  /\ UNCHANGED <<hvars, cvars, mvars, svars, pvars, fvars, avars, lvars, rvars,
                 prvars,
                 sc_counts, sc_next, sc_running, sc_results, sc_log>>

(***************************************************************************)
(* rps_benchmark.main: the load command.  A call of run_benchmark, which   *)
(* Spec follows step by step, is one step here.                            *)
(***************************************************************************)
\* int(t): None for ValueError, else the value.  The literals of the model
\* are [-]digits.
int(t) ==
  LET u == strip(t)
      neg == u # <<>> /\ Head(u) = "-"
      body == IF neg THEN Tail(u) ELSE u
  IN  IF body # <<>> /\ AllDigits(body)
      THEN Some((IF neg THEN -1 ELSE 1) * Number(body))
      ELSE None

CountsAcceptedFromZero(vals) ==
  /\ \A k \in 1 .. Len(vals) : vals[k] # None
  /\ Len(vals) # 0
  /\ \A k \in 1 .. Len(vals) : Val(vals[k]) >= 0

\* Lines 285-287 raise no ValueError: every item is an integer literal, the
\* list is not empty and every count is positive.
CountsAccepted(vals) ==
  /\ \A k \in 1 .. Len(vals) : vals[k] # None
  /\ Len(vals) # 0
  /\ \A k \in 1 .. Len(vals) : Val(vals[k]) > 0

RpsExit(status) ==
  /\ rps_status' = Some(status)
  /\ rps_pc' = "exit"

\* Lines 284-290: parse the client counts.
ParseClients ==
  /\ rps_pc = "clients"
  /\ LET vals == [k \in 1 .. Len(clients) |-> int(clients[k])]
     IN  IF CountsAccepted(vals)
         THEN /\ client_counts' = [k \in 1 .. Len(vals) |-> Val(vals[k])]
              /\ rps_pc' = "probe"
              /\ UNCHANGED rps_status
         ELSE RpsExit(1) /\ UNCHANGED client_counts
  /\ UNCHANGED <<zvars, hvars, cvars, mvars, svars, pvars, fvars, avars, rvars, clients,
                 scenario, server_up, rps_todo, contacted>>

\* Lines 292-303: proxy.echo("test").
Probe ==
  /\ rps_pc = "probe"
  /\ contacted' = TRUE
  /\ IF server_up
     THEN /\ rps_pc' = "run"
          /\ rps_todo' = IF scenario = "both"
                         THEN client_counts \o client_counts
                         ELSE client_counts
          /\ UNCHANGED rps_status
     ELSE RpsExit(1) /\ UNCHANGED rps_todo
  /\ UNCHANGED <<zvars, hvars, cvars, mvars, svars, pvars, fvars, avars, rvars, clients,
                 scenario, server_up, client_counts>>

\* One call of run_benchmark for the next client count of a scenario.
RunCount ==
  /\ rps_pc = "run"
  /\ rps_todo # <<>>
  /\ rps_todo' = Tail(rps_todo)
  /\ contacted' = TRUE
  /\ UNCHANGED <<zvars, hvars, cvars, mvars, svars, pvars, fvars, avars, rvars, clients,
                 scenario, server_up, client_counts, rps_pc, rps_status>>

\* main returns.
RpsDone ==
  /\ rps_pc = "run"
  /\ rps_todo = <<>>
  /\ RpsExit(0)
  /\ UNCHANGED <<zvars, hvars, cvars, mvars, svars, pvars, fvars, avars, rvars, clients,
                 scenario, server_up, client_counts, rps_todo, contacted>>

(***************************************************************************)
(* compare_benchmarks.main: the comparator command.                        *)
(***************************************************************************)
\* set(b.strip() for b in args.relaxed_benchmarks.split(',') if b.strip())
\* when the option is given and not the empty string.  The option value is
\* the sequence of its comma-separated items, each stripped.
ParseRelaxed(arg) ==
  IF arg = None \/ Val(arg) = <<"">> THEN None
  ELSE Some({Val(arg)[k] : k \in 1 .. Len(Val(arg))} \ {""})

\* The process ends with the status: sys.exit(status), or 1 after the
\* traceback of an exception that nothing caught.
Exit(status) ==
  /\ exit_status' = Some(status)
  /\ cli_pc' = "exit"

\* Lines 215-224: the threshold checks, then the relaxed list.
MainValidate ==
  /\ cli_pc = "validate"
  /\ IF threshold <= 0
     THEN Exit(2) /\ UNCHANGED relaxed_benchmarks
     ELSE IF relaxed_threshold # None /\ Val(relaxed_threshold) <= 0
     THEN Exit(2) /\ UNCHANGED relaxed_benchmarks
     ELSE /\ relaxed_benchmarks' = ParseRelaxed(arg_relaxed_benchmarks)
          /\ cli_pc' = "parse_baseline"
          /\ UNCHANGED exit_status
  /\ UNCHANGED <<hvars, svars, xvars, baseline, current, threshold,
                 relaxed_threshold, report, arg_relaxed_benchmarks,
                 baseline_file, current_file>>

\* baseline = parse_benchmark_file(args.baseline, ...)
MainParseBaseline ==
  /\ cli_pc = "parse_baseline"
  /\ LET r == parse_benchmark_file(baseline_file, TRUE)
     IN  IF r.end = "return"
         THEN /\ baseline' = r.results
              /\ cli_pc' = "parse_current"
              /\ UNCHANGED exit_status
         ELSE /\ Exit(IF r.end = "exit" THEN 2 ELSE 1)
              /\ UNCHANGED baseline
  /\ UNCHANGED <<hvars, svars, xvars, current, threshold, relaxed_threshold,
                 relaxed_benchmarks, report, arg_relaxed_benchmarks,
                 baseline_file, current_file>>

\* current = parse_benchmark_file(args.current, ...)
MainParseCurrent ==
  /\ cli_pc = "parse_current"
  /\ LET r == parse_benchmark_file(current_file, TRUE)
     IN  IF r.end = "return"
         THEN /\ current' = r.results
              /\ cli_pc' = "check"
              /\ UNCHANGED exit_status
         ELSE /\ Exit(IF r.end = "exit" THEN 2 ELSE 1)
              /\ UNCHANGED current
  /\ UNCHANGED <<hvars, svars, xvars, baseline, threshold, relaxed_threshold,
                 relaxed_benchmarks, report, arg_relaxed_benchmarks,
                 baseline_file, current_file>>

\* if not baseline: error_exit(...)   if not current: error_exit(...)
MainCheckEmpty ==
  /\ cli_pc = "check"
  /\ IF baseline = <<>> \/ current = <<>>
     THEN Exit(2)
     ELSE cli_pc' = "compare" /\ UNCHANGED exit_status
  /\ UNCHANGED <<hvars, svars, xvars, baseline, current, threshold,
                 relaxed_threshold, relaxed_benchmarks, report,
                 arg_relaxed_benchmarks, baseline_file, current_file>>

\* Lines 237-246: the comparison; print_report only prints.
MainCompare ==
  /\ cli_pc = "compare"
  /\ report' = compare_benchmarks(baseline, current, threshold,
                                  relaxed_threshold, relaxed_benchmarks)
  /\ cli_pc' = "report"
  /\ UNCHANGED <<hvars, svars, xvars, baseline, current, threshold,
                 relaxed_threshold, relaxed_benchmarks,
                 arg_relaxed_benchmarks, baseline_file, current_file,
                 exit_status>>

\* if regressions: sys.exit(1) else: sys.exit(0)
MainExit ==
  /\ cli_pc = "report"
  /\ Exit(IF report.regressions # <<>> THEN 1 ELSE 0)
  /\ UNCHANGED <<hvars, svars, xvars, baseline, current, threshold,
                 relaxed_threshold, relaxed_benchmarks, report,
                 arg_relaxed_benchmarks, baseline_file, current_file>>

(***************************************************************************)
(* Initial values of the parts a specification does not exercise.          *)
(***************************************************************************)
NoFile == File("missing", 0, <<>>)

CompareIdle ==
  /\ baseline = <<>>
  /\ current = <<>>
  /\ threshold = 20
  /\ relaxed_threshold = None
  /\ relaxed_benchmarks = None
  /\ report = NoReport

MainIdle ==
  /\ arg_relaxed_benchmarks = None
  /\ baseline_file = NoFile
  /\ current_file = NoFile
  /\ cli_pc = "idle"
  /\ exit_status = None

SelectIdle ==
  /\ runs = <<>>
  /\ minimum = <<>>
  /\ sel_pc = "idle"

AggregateIdle ==
  /\ files = <<>>
  /\ output = None
  /\ agg_i = 0
  /\ agg_pc = "idle"
  /\ agg_status = None

LoadIdle ==
  /\ clients = <<>>
  /\ scenario = "both"
  /\ server_up = FALSE
  /\ client_counts = <<>>
  /\ rps_todo = <<>>
  /\ contacted = FALSE
  /\ rps_pc = "idle"
  /\ rps_status = None

ScenarioIdle ==
  /\ sc_counts = <<>>
  /\ sc_next = 0
  /\ sc_running = None
  /\ sc_results = <<>>
  /\ sc_log = <<>>
  /\ sc_pc = "idle"

ReportIdle == printed = None

ExtrasIdle == ScenarioIdle /\ ReportIdle

RoundTripIdle ==
  /\ rt_results = <<>>
  /\ rt_file = NoFile
  /\ rt_parsed = NoParse
  /\ rt_pc = "idle"

ParseIdle ==
  /\ parse_file = NoFile
  /\ arg_exit_on_error = TRUE
  /\ parse_out = NoParse
  /\ parse_pc = "idle"

PercentileIdle ==
  /\ samples = <<>>
  /\ pct = 0
  /\ pct_value = 0
  /\ pct_pc = "idle"

HarnessIdle ==
  /\ num_requests = 0
  /\ num_clients = 1
  /\ warmup_requests = 0
  /\ HarnessStart("idle")

(***************************************************************************)
(* Spec: one call of run_benchmark.                                        *)
(***************************************************************************)
Init ==
  /\ HarnessStart("start")
  /\ CompareIdle
  /\ MainIdle
  /\ SelectIdle
  /\ PercentileIdle
  /\ ParseIdle
  /\ AggregateIdle
  /\ LoadIdle
  /\ RoundTripIdle
  /\ ExtrasIdle
  /\ num_requests \in 0 .. MaxRequests
  /\ num_clients \in 1 .. MaxClients
  /\ warmup_requests \in 0 .. MaxWarmup

Next ==
  \/ MainStart
  \/ WarmupSubmit
  \/ WarmupJoin
  \/ ResetAcquire
  \/ ResetWrite
  \/ StartTimer
  \/ MeasureSubmit
  \/ \E w \in Workers : Collect(w)
  \/ StopTimer
  \/ Return
  \/ \E w \in Workers : WorkerStep(w)

Spec == Init /\ [][Next]_vars

(***************************************************************************)
(* SpecFair: one call of run_benchmark under fair scheduling.  Every       *)
(* thread that can take a step eventually takes one: the coordinating      *)
(* thread, and each worker, whose call attempts all complete (the          *)
(* connection has a timeout) with one of the outcomes.                     *)
(***************************************************************************)
MainStep ==
  \/ MainStart
  \/ WarmupSubmit
  \/ WarmupJoin
  \/ ResetAcquire
  \/ ResetWrite
  \/ StartTimer
  \/ MeasureSubmit
  \/ \E w \in Workers : Collect(w)
  \/ StopTimer
  \/ Return

NextFair == MainStep \/ \E w \in Workers : WorkerStep(w)

Fairness == WF_vars(MainStep) /\ \A w \in Workers : WF_vars(WorkerStep(w))

\* One warmup request is enough for every warmup worker to make a call, and
\* two clients for two workers to contend for errors_lock.
InitFair ==
  /\ HarnessStart("start")
  /\ CompareIdle
  /\ MainIdle
  /\ SelectIdle
  /\ PercentileIdle
  /\ ParseIdle
  /\ AggregateIdle
  /\ LoadIdle
  /\ RoundTripIdle
  /\ ExtrasIdle
  /\ num_requests \in 0 .. MaxRequests
  /\ num_clients \in {1, 2}
  /\ warmup_requests \in {0, 1}

SpecFair == InitFair /\ [][NextFair]_vars /\ Fairness

(***************************************************************************)
(* SpecCompare: one call of compare_benchmarks on any two stores.          *)
(***************************************************************************)
Names == {"a", "b", "r"}

BaselineValues == {-50, 100}

CurrentValues == {0, 80, 120}

Thresholds == {19, 20}

RelaxedThresholds == {None, Some(50)}

RelaxedSets == {None, Some({}), Some({"r"})}

InitCompare ==
  /\ report = NoReport
  /\ arg_relaxed_benchmarks = None
  /\ baseline_file = NoFile
  /\ current_file = NoFile
  /\ cli_pc = "call"
  /\ exit_status = None
  /\ HarnessIdle
  /\ SelectIdle
  /\ PercentileIdle
  /\ ParseIdle
  /\ AggregateIdle
  /\ LoadIdle
  /\ RoundTripIdle
  /\ ExtrasIdle
  /\ baseline \in Dicts(Names, BaselineValues, MaxKeys)
  /\ current \in Dicts(Names, CurrentValues, MaxKeys)
  /\ threshold \in Thresholds
  /\ relaxed_threshold \in RelaxedThresholds
  /\ relaxed_benchmarks \in RelaxedSets

NextCompare == Compare

SpecCompare == InitCompare /\ [][NextCompare]_vars

(***************************************************************************)
(* SpecReport: compare_benchmarks on any two stores, then print_report.    *)
(***************************************************************************)
\* Values whose deltas against 100 differ within a section (-50 and -20,
\* 20 and 50) and repeat across names.
ReportBaselineValues == {100}

ReportCurrentValues == {50, 80, 120, 150}

InitReport ==
  /\ report = NoReport
  /\ arg_relaxed_benchmarks = None
  /\ baseline_file = NoFile
  /\ current_file = NoFile
  /\ cli_pc = "call"
  /\ exit_status = None
  /\ HarnessIdle
  /\ SelectIdle
  /\ PercentileIdle
  /\ ParseIdle
  /\ AggregateIdle
  /\ LoadIdle
  /\ RoundTripIdle
  /\ ExtrasIdle
  /\ threshold = 19
  /\ baseline \in Dicts(Names, ReportBaselineValues, MaxKeys)
  /\ current \in Dicts(Names, ReportCurrentValues, MaxKeys)
  /\ relaxed_threshold \in RelaxedThresholds
  /\ relaxed_benchmarks \in {None, Some({"r"})}

NextReport == Compare \/ PrintReport

SpecReport == InitReport /\ [][NextReport]_vars

(***************************************************************************)
(* SpecCompareSelf: one call of compare_benchmarks(S, S, ...).             *)
(***************************************************************************)
SelfValues == {-50, 100, 120}

InitCompareSelf ==
  /\ report = NoReport
  /\ arg_relaxed_benchmarks = None
  /\ baseline_file = NoFile
  /\ current_file = NoFile
  /\ cli_pc = "call"
  /\ exit_status = None
  /\ HarnessIdle
  /\ SelectIdle
  /\ PercentileIdle
  /\ ParseIdle
  /\ AggregateIdle
  /\ LoadIdle
  /\ RoundTripIdle
  /\ ExtrasIdle
  /\ baseline \in Dicts(Names, SelfValues, MaxKeys)
  /\ current = baseline
  /\ threshold \in Thresholds
  /\ relaxed_threshold \in RelaxedThresholds
  /\ relaxed_benchmarks \in RelaxedSets

NextCompareSelf == Compare

SpecCompareSelf == InitCompareSelf /\ [][NextCompareSelf]_vars

(***************************************************************************)
(* SpecSelect: one call of select_minimum on any sequence of runs.         *)
(***************************************************************************)
RunNames == {"a", "b"}

RunValues == {-50, 90, 100}

InitSelect ==
  /\ minimum = <<>>
  /\ sel_pc = "call"
  /\ HarnessIdle
  /\ CompareIdle
  /\ MainIdle
  /\ PercentileIdle
  /\ ParseIdle
  /\ AggregateIdle
  /\ LoadIdle
  /\ RoundTripIdle
  /\ ExtrasIdle
  /\ runs \in SeqsUpTo(Dicts(RunNames, RunValues, MaxKeys), MaxRuns)

NextSelect == SelectMinimum

SpecSelect == InitSelect /\ [][NextSelect]_vars

(***************************************************************************)
(* SpecSelectAny: one call of select_minimum on runs as                    *)
(* parse_benchmark_file can return them, a nan value included.             *)
(***************************************************************************)
AnyRunValues == {NaN, 90, 100}

InitSelectAny ==
  /\ minimum = <<>>
  /\ sel_pc = "call"
  /\ HarnessIdle
  /\ CompareIdle
  /\ MainIdle
  /\ PercentileIdle
  /\ ParseIdle
  /\ AggregateIdle
  /\ LoadIdle
  /\ RoundTripIdle
  /\ ExtrasIdle
  /\ runs \in SeqsUpTo(Dicts(RunNames, AnyRunValues, MaxKeys), MaxRuns)

NextSelectAny == SelectMinimum

SpecSelectAny == InitSelectAny /\ [][NextSelectAny]_vars

(***************************************************************************)
(* SpecStatistics: the return of run_benchmark (lines 178-204) after a     *)
(* measurement by one client, without warmup, in which every call          *)
(* succeeded.  The latencies are whole milliseconds in ns, so that         *)
(* ns / 1_000_000 is exact.                                                *)
(***************************************************************************)
\* The order in which the worker recorded its samples.
Layouts == {"ascending", "descending", "alternating"}

\* Number of consecutive samples (in ascending order) of equal latency.
TieLengths == {1, 3, MaxMeasured + 1}

\* k latencies in ns: in ascending order the j-th is 1 + (j - 1) \div d ms.
Measured(k, d, lay) ==
  [i \in 1 .. k |->
     LET j == IF lay = "ascending" THEN i
              ELSE IF lay = "descending" THEN k + 1 - i
              ELSE IF i % 2 = 1 THEN (i + 1) \div 2
              ELSE k + 1 - i \div 2
     IN  (1 + (j - 1) \div d) * 1000000]

\* The state in which end_time has been taken (line 176).
InitStatistics ==
  /\ main_pc = "result"
  /\ num_clients = 1
  /\ warmup_requests = 0
  /\ next_submit = 1
  /\ errors = 0
  /\ errors_lock = NoHolder
  /\ timer = "stopped"
  /\ collected = {<<"measure", 0>>}
  /\ result = NoResult
  /\ pc = [w \in Workers |-> IF w = <<"measure", 0>> THEN "done" ELSE "absent"]
  /\ todo = [w \in Workers |-> 0]
  /\ att = [w \in Workers |-> 0]
  /\ ri = [w \in Workers |-> 0]
  /\ conn = [w \in Workers |-> "none"]
  /\ tmp = [w \in Workers |-> 0]
  /\ exc = [w \in Workers |-> "none"]
  /\ failures = [ph \in Phases |-> 0]
  /\ CompareIdle
  /\ MainIdle
  /\ SelectIdle
  /\ PercentileIdle
  /\ ParseIdle
  /\ AggregateIdle
  /\ LoadIdle
  /\ RoundTripIdle
  /\ ExtrasIdle
  /\ \E k \in 0 .. MaxMeasured, d \in TieLengths, lay \in Layouts :
       /\ all_latencies = Measured(k, d, lay)
       /\ num_requests = k
       /\ requests_per_worker =
            [w \in Workers |-> IF w = <<"measure", 0>> THEN k ELSE 0]
       /\ local_latencies =
            [w \in Workers |-> IF w = <<"measure", 0>>
                               THEN Measured(k, d, lay) ELSE <<>>]

NextStatistics == Return

SpecStatistics == InitStatistics /\ [][NextStatistics]_vars

(***************************************************************************)
(* SpecGate: select_minimum on runs of positive values, then               *)
(* compare_benchmarks of a baseline with the aggregated store.             *)
(***************************************************************************)
\* Against the baseline value 100: unchanged, above the default threshold,
\* above the relaxed threshold.
GateValues == {100, 125, 160}

InitGate ==
  /\ minimum = <<>>
  /\ sel_pc = "call"
  /\ current = <<>>
  /\ report = NoReport
  /\ arg_relaxed_benchmarks = None
  /\ baseline_file = NoFile
  /\ current_file = NoFile
  /\ cli_pc = "call"
  /\ exit_status = None
  /\ HarnessIdle
  /\ PercentileIdle
  /\ ParseIdle
  /\ AggregateIdle
  /\ LoadIdle
  /\ RoundTripIdle
  /\ ExtrasIdle
  /\ threshold = 20
  /\ relaxed_benchmarks = Some({"a"})
  /\ relaxed_threshold \in RelaxedThresholds
  /\ baseline \in Dicts(RunNames, {100}, MaxKeys)
  /\ runs \in SeqsUpTo(Dicts(RunNames, GateValues, MaxKeys), MaxRuns)

NextGate == SelectMinimum \/ CompareMinimum

SpecGate == InitGate /\ [][NextGate]_vars

(***************************************************************************)
(* SpecMain: one run of the comparator command.                            *)
(***************************************************************************)
MainLines ==
  {Line("badvalue", "a", 0), Line("valid", "a", 100),
   Line("valid", "a", 130), Line("valid", "r", 100)}

MainFiles ==
  {File("ok", 0, ls) : ls \in SeqsUpTo(MainLines, MaxLines)}
    \cup {File(st, 0, <<>>) : st \in {"missing", "ioerror", "undecodable"}}

InitMain ==
  /\ baseline = <<>>
  /\ current = <<>>
  /\ relaxed_benchmarks = None
  /\ report = NoReport
  /\ cli_pc = "validate"
  /\ exit_status = None
  /\ HarnessIdle
  /\ SelectIdle
  /\ PercentileIdle
  /\ ParseIdle
  /\ AggregateIdle
  /\ LoadIdle
  /\ RoundTripIdle
  /\ ExtrasIdle
  /\ threshold \in {0, 20}
  /\ relaxed_threshold \in {None, Some(0), Some(50)}
  /\ arg_relaxed_benchmarks \in {None, Some(<<"">>), Some(<<"r">>),
                                 Some(<<"", "">>)}
  /\ baseline_file \in MainFiles
  /\ current_file \in MainFiles

NextMain ==
  \/ MainValidate
  \/ MainParseBaseline
  \/ MainParseCurrent
  \/ MainCheckEmpty
  \/ MainCompare
  \/ MainExit

SpecMain == InitMain /\ [][NextMain]_vars

(***************************************************************************)
(* SpecPercentile: one call of percentile.  The samples are ascending and  *)
(* distinct, so the value returned tells the index that was read.          *)
(***************************************************************************)
SampleStarts == {1, 7}

Ascending(lo, k) == [i \in 1 .. k |-> lo + i - 1]

Percentiles == 0 .. 100

\* A direct call of percentile(samples, pct).
Percentile ==
  /\ pct_pc = "call"
  /\ pct_value' = percentile(samples, pct)
  /\ pct_pc' = "returned"
  /\ UNCHANGED <<zvars, hvars, cvars, mvars, svars, fvars, avars, lvars, rvars,
                 samples, pct>>

InitPercentile ==
  /\ pct_value = 0
  /\ pct_pc = "call"
  /\ HarnessIdle
  /\ CompareIdle
  /\ MainIdle
  /\ SelectIdle
  /\ ParseIdle
  /\ AggregateIdle
  /\ LoadIdle
  /\ RoundTripIdle
  /\ ExtrasIdle
  /\ \E lo \in SampleStarts, k \in 0 .. MaxSamples : samples = Ascending(lo, k)
  /\ pct \in Percentiles

NextPercentile == Percentile

SpecPercentile == InitPercentile /\ [][NextPercentile]_vars

(***************************************************************************)
(* SpecParse: one call of parse_benchmark_file.                            *)
(***************************************************************************)
LineTexts ==
  { <<>>,
    <<"#", "a", ":", "1">>,
    <<"a", " ", "1">>,
    <<":", "1">>,
    <<"a", ":", "x">>,
    <<"a", ":", "1", ":", "2">>,
    <<"a", ":", "1">>,
    <<" ", "a", " ", ":", " ", "2", " ">>,
    <<"b", ":", "-", "5">>,
    <<"b", ":", "0", ".", "1", "2", "5">>,
    <<"a", ":", "n", "a", "n">> }

\* Blank or comment lines before the listed ones: none, or as many as put
\* the listed lines at the cap.
Leads == {0, MAX_LINES - 1, MAX_LINES}

ParseFiles ==
  {TextFile(st, ld, ts) :
     st \in {"ok", "ioerror", "undecodable"}, ld \in Leads,
     ts \in SeqsUpTo(LineTexts, MaxLines)}
    \cup {TextFile("missing", 0, <<>>)}

InitParse ==
  /\ parse_out = NoParse
  /\ parse_pc = "call"
  /\ HarnessIdle
  /\ CompareIdle
  /\ MainIdle
  /\ SelectIdle
  /\ PercentileIdle
  /\ AggregateIdle
  /\ LoadIdle
  /\ RoundTripIdle
  /\ ExtrasIdle
  /\ parse_file \in ParseFiles
  /\ arg_exit_on_error \in BOOLEAN

NextParse == ParseFile

SpecParse == InitParse /\ [][NextParse]_vars

(***************************************************************************)
(* SpecAggregate: one run of the aggregator command on one or more files.  *)
(***************************************************************************)
AggregateFiles ==
  { TextFile("ok", 0, << <<"a", ":", "1">>, <<"b", ":", "-", "5">> >>),
    TextFile("ok", 0, << <<" ", "a", " ", ":", " ", "2", " ">> >>),
    TextFile("ok", 0, << <<"#", "a", ":", "1">> >>),
    TextFile("ok", 0, << <<"a", ":", "x">> >>),
    TextFile("missing", 0, <<>>),
    TextFile("ioerror", 0, <<>>),
    TextFile("ioerror", 0, << <<"a", ":", "1">> >>),
    TextFile("undecodable", 0, << <<"a", ":", "1">> >>) }

InitAggregate ==
  /\ output = None
  /\ agg_i = 1
  /\ agg_pc = "parse"
  /\ agg_status = None
  /\ runs = <<>>
  /\ minimum = <<>>
  /\ sel_pc = "idle"
  /\ HarnessIdle
  /\ CompareIdle
  /\ MainIdle
  /\ PercentileIdle
  /\ ParseIdle
  /\ LoadIdle
  /\ RoundTripIdle
  /\ ExtrasIdle
  /\ files \in SeqsUpTo(AggregateFiles, MaxRuns) \ {<<>>}

NextAggregate == LoadRun \/ CheckRuns \/ SelectAndWrite

SpecAggregate == InitAggregate /\ [][NextAggregate]_vars

(***************************************************************************)
(* SpecConfig: one run of the comparator command or of the load command,   *)
(* on valid and invalid configurations.                                    *)
(***************************************************************************)
ConfigFiles ==
  {File("ok", 0, <<Line("valid", "a", 100)>>),
   File("ok", 0, <<Line("valid", "a", 130)>>),
   File("missing", 0, <<>>)}

ClientItems ==
  { <<>>, <<"1">>, <<" ", "2", " ">>, <<"0">>, <<"-", "1">>, <<"x">>,
    <<"1", ".", "5">> }

InitConfigComparator ==
  /\ baseline = <<>>
  /\ current = <<>>
  /\ relaxed_benchmarks = None
  /\ report = NoReport
  /\ cli_pc = "validate"
  /\ exit_status = None
  /\ HarnessIdle
  /\ SelectIdle
  /\ PercentileIdle
  /\ ParseIdle
  /\ AggregateIdle
  /\ LoadIdle
  /\ RoundTripIdle
  /\ ExtrasIdle
  /\ threshold \in {-5, 0, 20}
  /\ relaxed_threshold \in {None, Some(-5), Some(0), Some(50)}
  /\ arg_relaxed_benchmarks \in {None, Some(<<"">>), Some(<<"r">>),
                                 Some(<<"", "">>), Some(<<"a", "">>)}
  /\ baseline_file \in ConfigFiles
  /\ current_file \in ConfigFiles

InitConfigLoad ==
  /\ client_counts = <<>>
  /\ rps_todo = <<>>
  /\ contacted = FALSE
  /\ rps_pc = "clients"
  /\ rps_status = None
  /\ HarnessIdle
  /\ CompareIdle
  /\ MainIdle
  /\ SelectIdle
  /\ PercentileIdle
  /\ ParseIdle
  /\ AggregateIdle
  /\ RoundTripIdle
  /\ ExtrasIdle
  /\ clients \in SeqsUpTo(ClientItems, MaxClients) \ {<<>>}
  /\ scenario \in {"small", "large", "both"}
  /\ server_up \in BOOLEAN

InitConfig == InitConfigComparator \/ InitConfigLoad

NextLoad == ParseClients \/ Probe \/ RunCount \/ RpsDone

NextConfig == NextMain \/ NextLoad

SpecConfig == InitConfig /\ [][NextConfig]_vars

(***************************************************************************)
(* SpecRoundTrip: write_results on a store the parser or the aggregator    *)
(* produced, then parse_benchmark_file on the written file.                *)
(***************************************************************************)
RoundTripTexts ==
  { <<"a", ":", "1">>,
    <<"a", ":", "n", "a", "n">>,
    <<"b", ":", "0", ".", "1", "2", "5">>,
    <<"b", ":", "-", "5">>,
    <<"a", " ", "b", ":", "0", ".", "3", "7", "5">> }

ParserStores ==
  {parse_benchmark_file(TextFile("ok", 0, ts), TRUE).results :
     ts \in SeqsUpTo(RoundTripTexts, MaxLines)}

AggregatorStores ==
  UNION {{select_minimum(<<p, q>>, order) :
            order \in Orders(all_names(<<p, q>>))} :
           p \in ParserStores, q \in ParserStores}

InitRoundTrip ==
  /\ rt_file = NoFile
  /\ rt_parsed = NoParse
  /\ rt_pc = "write"
  /\ HarnessIdle
  /\ CompareIdle
  /\ MainIdle
  /\ SelectIdle
  /\ PercentileIdle
  /\ ParseIdle
  /\ AggregateIdle
  /\ LoadIdle
  /\ ExtrasIdle
  /\ rt_results \in ParserStores \cup AggregatorStores

NextRoundTrip == WriteResults \/ ParseWritten

SpecRoundTrip == InitRoundTrip /\ [][NextRoundTrip]_vars

(***************************************************************************)
(* SpecScenario: one call of run_scenario on any list of client counts.    *)
(***************************************************************************)
ScenarioLevels == {1, 2, 4}

InitScenario ==
  /\ sc_next = 1
  /\ sc_running = None
  /\ sc_results = <<>>
  /\ sc_log = <<>>
  /\ sc_pc = "loop"
  /\ HarnessIdle
  /\ CompareIdle
  /\ MainIdle
  /\ SelectIdle
  /\ PercentileIdle
  /\ ParseIdle
  /\ AggregateIdle
  /\ LoadIdle
  /\ RoundTripIdle
  /\ ReportIdle
  /\ sc_counts \in SeqsUpTo(ScenarioLevels, MaxLevels)

NextScenario == ScenarioRun \/ ScenarioStore \/ ScenarioReturn

SpecScenario == InitScenario /\ [][NextScenario]_vars

(***************************************************************************)
(* Properties of run_benchmark (checked under Spec).                       *)
(***************************************************************************)
Spawned(w) == pc[w] # "absent"

MeasureIds == 0 .. num_clients - 1

RECURSIVE SumShares(_)
SumShares(n) ==
  IF n = 0 THEN 0
  ELSE requests_per_worker[<<"measure", n - 1>>] + SumShares(n - 1)

AllSubmitted == main_pc \in {"collect", "result", "done"}

\* C1: every submitted measurement worker i is given
\* num_requests // num_clients requests plus one when i < num_requests mod
\* num_clients; once all are submitted the shares differ by at most 1 and
\* add up to num_requests.
C1_EvenSplit ==
  /\ \A i \in MeasureIds :
       Spawned(<<"measure", i>>) =>
         requests_per_worker[<<"measure", i>>] =
           (num_requests \div num_clients)
             + (IF i < num_requests % num_clients THEN 1 ELSE 0)
  /\ AllSubmitted =>
       /\ SumShares(num_clients) = num_requests
       /\ \A i, j \in MeasureIds :
            requests_per_worker[<<"measure", i>>]
              - requests_per_worker[<<"measure", j>>] <= 1

C1_Witness ==
  /\ AllSubmitted
  /\ num_clients = 2
  /\ num_requests = 1
  /\ requests_per_worker[<<"measure", 0>>] = 1
  /\ requests_per_worker[<<"measure", 1>>] = 0

(***************************************************************************)
(* Properties of compare_benchmarks (checked under SpecCompare).           *)
(***************************************************************************)
Returned == cli_pc = "returned"

\* Names of the entries of a result list.
EntryNames(es) == {es[k][1] : k \in 1 .. Len(es)}

ListNames(ns) == {ns[k] : k \in 1 .. Len(ns)}

ComparedNames ==
  {n \in Keys(baseline) \cap Keys(current) :
     Get(baseline, n) > 0 /\ Get(current, n) > 0}

\* The threshold that applies to a name, as the relaxed-threshold rule
\* states it.
RuleThreshold(n) ==
  IF /\ relaxed_threshold # None
     /\ relaxed_benchmarks # None
     /\ n \in Val(relaxed_benchmarks)
  THEN Val(relaxed_threshold)
  ELSE threshold

\* (current - baseline) * 100, the delta in percent times the baseline.
ScaledDelta(n) == (Get(current, n) - Get(baseline, n)) * 100

Parts ==
  <<EntryNames(report.regressions), EntryNames(report.improvements),
    EntryNames(report.unchanged), ListNames(report.new_benchmarks),
    ListNames(report.missing_benchmarks)>>

PartSize == Len(report.regressions) + Len(report.improvements)
              + Len(report.unchanged) + Len(report.new_benchmarks)
              + Len(report.missing_benchmarks)

\* C3: the five outputs are pairwise disjoint by name and list no name
\* twice, hold only keys of baseline or current, and every such key is in
\* exactly one of them, except a key of both stores with a value <= 0 on
\* either side, which is in none.
C3_Partition ==
  Returned =>
    LET all == Keys(baseline) \cup Keys(current)
        listed == UNION {Parts[k] : k \in 1 .. 5}
        invalid == {n \in Keys(baseline) \cap Keys(current) :
                      Get(baseline, n) <= 0 \/ Get(current, n) <= 0}
    IN  /\ \A j, k \in 1 .. 5 : j # k => Parts[j] \cap Parts[k] = {}
        /\ PartSize = Cardinality(listed)
        /\ listed = all \ invalid
        /\ Parts[4] = Keys(current) \ Keys(baseline)
        /\ Parts[5] = Keys(baseline) \ Keys(current)

C3_Witness ==
  /\ Returned
  /\ Len(report.new_benchmarks) = 1
  /\ Len(report.missing_benchmarks) = 1
  /\ \E n \in Keys(baseline) \cap Keys(current) :
       Get(baseline, n) < 0 /\ Get(current, n) > 0

\* The entries of the three compared lists.
AllEntries == report.regressions \o report.improvements \o report.unchanged

\* C5: the threshold of an entry is the relaxed threshold iff a relaxed
\* threshold is supplied and the name is in the relaxed set, else the
\* default threshold; and the entry is in the list its delta and its stored
\* threshold select.
C5_EffectiveThreshold ==
  Returned =>
    /\ \A k \in 1 .. Len(AllEntries) :
         LET e == AllEntries[k]
             relaxed == /\ relaxed_threshold # None
                        /\ relaxed_benchmarks # None
                        /\ e[1] \in Val(relaxed_benchmarks)
         IN  /\ relaxed => e[5] = Val(relaxed_threshold)
             /\ ~relaxed => e[5] = threshold
    /\ \A k \in 1 .. Len(report.regressions) :
         LET e == report.regressions[k]
         IN  (e[3] - e[2]) * 100 > e[5] * e[2]
    /\ \A k \in 1 .. Len(report.improvements) :
         LET e == report.improvements[k]
         IN  (e[3] - e[2]) * 100 < (-e[5]) * e[2]
    /\ \A k \in 1 .. Len(report.unchanged) :
         LET e == report.unchanged[k]
         IN  /\ (e[3] - e[2]) * 100 <= e[5] * e[2]
             /\ (e[3] - e[2]) * 100 >= (-e[5]) * e[2]

C5_Witness ==
  /\ Returned
  /\ threshold = 19
  /\ relaxed_threshold = Some(50)
  /\ relaxed_benchmarks = Some({"r"})
  /\ \E j \in 1 .. Len(report.regressions), k \in 1 .. Len(report.unchanged) :
       /\ report.regressions[j][1] = "a"
       /\ report.regressions[j][5] = 19
       /\ report.unchanged[k][1] = "r"
       /\ report.unchanged[k][5] = 50
       /\ report.unchanged[k][3] = 120

\* C13: new is exactly the keys of current that are not keys of baseline
\* and missing exactly the keys of baseline that are not keys of current,
\* each listed once and whatever its value (also zero or negative); a new
\* name is in none of regressions, improvements and unchanged.
C13_NewAndMissing ==
  Returned =>
    /\ ListNames(report.new_benchmarks) = Keys(current) \ Keys(baseline)
    /\ ListNames(report.missing_benchmarks) = Keys(baseline) \ Keys(current)
    /\ Len(report.new_benchmarks) = Cardinality(Keys(current) \ Keys(baseline))
    /\ Len(report.missing_benchmarks) =
         Cardinality(Keys(baseline) \ Keys(current))
    /\ \A n \in ListNames(report.new_benchmarks) :
         n \notin EntryNames(AllEntries)

C13_Witness ==
  /\ Returned
  /\ \E n \in ListNames(report.new_benchmarks) : Get(current, n) = 0
  /\ \E n \in ListNames(report.missing_benchmarks) : Get(baseline, n) < 0

\* Every value of the store is positive.
AllPositive(d) == \A k \in 1 .. Len(d) : d[k][2] > 0

\* C14 (under SpecCompareSelf): a store of positive values compared with
\* itself under a positive default threshold gives no regression, no
\* improvement, no new and no missing name, and one unchanged entry per
\* name, each with delta 0.
C14_SelfComparison ==
  (Returned /\ current = baseline /\ AllPositive(baseline) /\ threshold > 0) =>
    /\ report.regressions = <<>>
    /\ report.improvements = <<>>
    /\ report.new_benchmarks = <<>>
    /\ report.missing_benchmarks = <<>>
    /\ Len(report.unchanged) = Len(baseline)
    /\ EntryNames(report.unchanged) = Keys(baseline)
    /\ \A k \in 1 .. Len(report.unchanged) : report.unchanged[k][4].num = 0

C14_Witness ==
  /\ Returned
  /\ current = baseline
  /\ Len(baseline) = 2
  /\ AllPositive(baseline)
  /\ relaxed_threshold # None
  /\ Len(report.unchanged) = 2

\* The same store built in another insertion order.
Reorderings(d) ==
  {[k \in 1 .. Len(d) |-> d[o[k]]] : o \in Orders(1 .. Len(d))}

Elements(s) == {s[k] : k \in 1 .. Len(s)}

\* Two results list the same entries and names, in whatever order.
SameOutputs(r1, r2) ==
  /\ Elements(r1.regressions) = Elements(r2.regressions)
  /\ Elements(r1.improvements) = Elements(r2.improvements)
  /\ Elements(r1.unchanged) = Elements(r2.unchanged)
  /\ Elements(r1.new_benchmarks) = Elements(r2.new_benchmarks)
  /\ Elements(r1.missing_benchmarks) = Elements(r2.missing_benchmarks)

\* C15: a call leaves both stores as they were, and what it returns has
\* the same entries in each of the five outputs as the call on the same
\* stores built in any other insertion order.
C15_OrderIndependent ==
  [][ /\ baseline' = baseline
      /\ current' = current
      /\ cli_pc' = "returned" =>
            /\ \A b \in Reorderings(baseline) :
                 SameOutputs(report',
                   compare_benchmarks(b, current, threshold,
                                      relaxed_threshold, relaxed_benchmarks))
            /\ \A c \in Reorderings(current) :
                 SameOutputs(report',
                   compare_benchmarks(baseline, c, threshold,
                                      relaxed_threshold, relaxed_benchmarks)) ]_vars

C15_Witness ==
  /\ Returned
  /\ Len(baseline) = 2
  /\ Len(current) = 2
  /\ Keys(baseline) = Keys(current)
  /\ baseline[1][1] = current[2][1]
  /\ Len(report.regressions) = 1
  /\ Len(report.improvements) = 1

\* Positive thresholds to compare the thresholds of the call with.
OtherThresholds == {19, 21, 60}

\* The names a result has compared.
NamesCompared(r) ==
  EntryNames(r.regressions) \cup EntryNames(r.improvements)
    \cup EntryNames(r.unchanged)

\* r2 is a result of the same stores under thresholds that are not lower
\* than those of r1.
NotMoreClassified(r1, r2) ==
  /\ EntryNames(r2.regressions) \subseteq EntryNames(r1.regressions)
  /\ EntryNames(r2.improvements) \subseteq EntryNames(r1.improvements)
  /\ NamesCompared(r2) = NamesCompared(r1)

\* C36: for the same stores, a higher default threshold, or a higher
\* relaxed threshold, adds no name to the regressions or to the
\* improvements, and the names compared are the same.
C36_MonotoneInThreshold ==
  Returned =>
    \A t \in OtherThresholds :
      LET ofDefault == compare_benchmarks(baseline, current, t,
                         relaxed_threshold, relaxed_benchmarks)
          ofRelaxed == compare_benchmarks(baseline, current, threshold,
                         Some(t), relaxed_benchmarks)
      IN  /\ t >= threshold => NotMoreClassified(report, ofDefault)
          /\ t <= threshold => NotMoreClassified(ofDefault, report)
          /\ relaxed_threshold # None =>
               /\ t >= Val(relaxed_threshold) =>
                    NotMoreClassified(report, ofRelaxed)
               /\ t <= Val(relaxed_threshold) =>
                    NotMoreClassified(ofRelaxed, report)

\* Threshold 19 with a regression a of 20 percent and an improvement r
\* that is unchanged by the relaxed threshold 50: under threshold 21 a is
\* unchanged, under the relaxed threshold 19 r is an improvement.
C36_Witness ==
  /\ Returned
  /\ threshold = 19
  /\ relaxed_threshold = Some(50)
  /\ EntryNames(report.regressions) = {"a"}
  /\ EntryNames(report.unchanged) = {"r"}
  /\ LET of21 == compare_benchmarks(baseline, current, 21,
                                    relaxed_threshold, relaxed_benchmarks)
         of19 == compare_benchmarks(baseline, current, threshold,
                                    Some(19), relaxed_benchmarks)
     IN  /\ EntryNames(of21.unchanged) = {"a", "r"}
         /\ EntryNames(of19.improvements) = {"r"}

(***************************************************************************)
(* Properties of print_report (checked under SpecReport).                  *)
(***************************************************************************)
\* The stores that are the mapping d in another iteration order.
Reordered(d) ==
  {e \in [1 .. Len(d) -> {d[k] : k \in 1 .. Len(d)}] :
     \A j, k \in 1 .. Len(d) : e[j] = e[k] => j = k}

PrintedOf(base, cur) ==
  print_report(compare_benchmarks(base, cur, threshold, relaxed_threshold,
                                  relaxed_benchmarks))

\* The position of name in the iteration order of the current store.
PositionInCurrent(name) ==
  CHOOSE k \in 1 .. Len(current) : current[k][1] = name

DeltaDescending(es) ==
  \A k \in 1 .. Len(es) - 1 : ~DeltaLt(es[k][4], es[k + 1][4])

DeltaAscending(es) ==
  \A k \in 1 .. Len(es) - 1 : ~DeltaLt(es[k + 1][4], es[k][4])

Lexicographic(ns) == \A k \in 1 .. Len(ns) - 1 : NameLt(ns[k], ns[k + 1])

\* Entries of equal delta are in the iteration order of current.
TiesInCurrentOrder(es) ==
  \A k \in 1 .. Len(es) - 1 :
    (~DeltaLt(es[k][4], es[k + 1][4]) /\ ~DeltaLt(es[k + 1][4], es[k][4])) =>
      PositionInCurrent(es[k][1]) < PositionInCurrent(es[k + 1][1])

NoTie(es) ==
  \A j, k \in 1 .. Len(es) :
    j # k => DeltaLt(es[j][4], es[k][4]) \/ DeltaLt(es[k][4], es[j][4])

\* C25 as stated: regressions are printed in descending and improvements
\* in ascending order of delta, new and missing names in lexicographic
\* order, and the same lists are printed for the same two mappings in any
\* iteration order.
C25_OrderDeterministic ==
  printed # None =>
    /\ DeltaDescending(Val(printed).regressions)
    /\ DeltaAscending(Val(printed).improvements)
    /\ Lexicographic(Val(printed).new_benchmarks)
    /\ Lexicographic(Val(printed).missing_benchmarks)
    /\ \A b2 \in Reordered(baseline), c2 \in Reordered(current) :
         PrintedOf(b2, c2) = Val(printed)

\* C25, amended: the orders are as stated, with entries of equal delta in
\* the iteration order of the current mapping; the printed lists do not
\* depend on the iteration order of the baseline mapping, and depend on
\* that of the current mapping only through entries of equal delta.
C25_OrderOfReport ==
  printed # None =>
    /\ DeltaDescending(Val(printed).regressions)
    /\ DeltaAscending(Val(printed).improvements)
    /\ Lexicographic(Val(printed).new_benchmarks)
    /\ Lexicographic(Val(printed).missing_benchmarks)
    /\ TiesInCurrentOrder(Val(printed).regressions)
    /\ TiesInCurrentOrder(Val(printed).improvements)
    /\ {e[1] : e \in {Val(printed).regressions[k] :
                        k \in 1 .. Len(Val(printed).regressions)}}
         = {e[1] : e \in {report.regressions[k] :
                            k \in 1 .. Len(report.regressions)}}
    /\ Len(Val(printed).regressions) = Len(report.regressions)
    /\ Len(Val(printed).improvements) = Len(report.improvements)
    /\ \A b2 \in Reordered(baseline) :
         /\ PrintedOf(b2, current) = Val(printed)
         /\ \A c2 \in Reordered(current) :
              LET other == PrintedOf(b2, c2)
              IN  /\ other.new_benchmarks = Val(printed).new_benchmarks
                  /\ other.missing_benchmarks = Val(printed).missing_benchmarks
                  /\ NoTie(Val(printed).regressions) =>
                       other.regressions = Val(printed).regressions
                  /\ NoTie(Val(printed).improvements) =>
                       other.improvements = Val(printed).improvements

\* Two regressions of equal delta, b before a in the current store, are
\* printed b first.
C25_Witness ==
  /\ printed # None
  /\ baseline = << <<"a", 100>>, <<"b", 100>> >>
  /\ current = << <<"b", 120>>, <<"a", 120>> >>
  /\ threshold = 19
  /\ Len(Val(printed).regressions) = 2
  /\ Val(printed).regressions[1][1] = "b"
  /\ Val(printed).regressions[2][1] = "a"

(***************************************************************************)
(* Properties of parse_benchmark_file (checked under SpecParse).           *)
(***************************************************************************)
ParseReturned == parse_pc = "returned" /\ parse_out.end = "return"

\* The listed lines the loop reads, and those of them that are valid.
ReadLines(file) ==
  {k \in 1 .. Len(file.lines) : file.lead + k - 1 < MAX_LINES}

ValidRead(file) == {k \in ReadLines(file) : file.lines[k].kind = "valid"}

\* C16: a name on several valid lines that are read is mapped to the value
\* of the last of them, and is in the result once.
C16_LastWins ==
  ParseReturned =>
    /\ \A k \in ValidRead(parse_file) :
         LET n == parse_file.lines[k].name
             last == CHOOSE j \in ValidRead(parse_file) :
                       /\ parse_file.lines[j].name = n
                       /\ \A i \in ValidRead(parse_file) :
                            parse_file.lines[i].name = n => i <= j
         IN  /\ Has(parse_out.results, n)
             /\ Get(parse_out.results, n) = parse_file.lines[last].value
    /\ Len(parse_out.results) = Cardinality(Keys(parse_out.results))

C16_Witness ==
  /\ ParseReturned
  /\ parse_file.lead = 0
  /\ parse_file.text = << <<"a", ":", "1">>,
                          <<" ", "a", " ", ":", " ", "2", " ">> >>
  /\ parse_out.results = << <<<<"a">>, 2000>> >>

\* The file without its blank, comment and malformed lines.
WithoutSkipped(file) ==
  [file EXCEPT !.lead = 0,
               !.lines = SelectSeq(file.lines, LAMBDA l : l.kind = "valid")]

\* The first MAX_LINES physical lines of the file.
FirstLines(file) ==
  [file EXCEPT !.lead = Min(file.lead, MAX_LINES),
               !.lines = SubSeq(file.lines, 1,
                                Min(Len(file.lines),
                                    Max(0, MAX_LINES - file.lead)))]

StoreOf(file) == parse_benchmark_file(file, FALSE).results

\* C17 as stated: the call on a readable file returns, and returns the
\* store of the file without its malformed, blank and comment lines.
C17_SkippedLinesRemoved ==
  (parse_pc = "returned" /\ parse_file.status = "ok") =>
    /\ parse_out.end = "return"
    /\ parse_out.results = StoreOf(WithoutSkipped(parse_file))

\* C17, amended: the call on a readable file returns, and returns the store
\* of the first MAX_LINES lines of the file without their malformed, blank
\* and comment lines; a skipped line never ends the loop.
C17_SkippedLinesRemovedOfRead ==
  (parse_pc = "returned" /\ parse_file.status = "ok") =>
    /\ parse_out.end = "return"
    /\ parse_out.results = StoreOf(WithoutSkipped(FirstLines(parse_file)))
    /\ \A k \in ValidRead(parse_file) :
         Has(parse_out.results, parse_file.lines[k].name)

\* The valid line after a malformed line is in the store.
C17_Witness ==
  /\ parse_pc = "returned"
  /\ parse_file.status = "ok"
  /\ parse_file.lead = 0
  /\ parse_file.text = << <<"a", ":", "1", ":", "2">>, <<"b", ":", "-", "5">> >>
  /\ parse_out.results = << <<<<"b">>, -5000>> >>

\* The listed lines beyond the first MAX_LINES physical lines.
BeyondCap(file) == (1 .. Len(file.lines)) \ ReadLines(file)

\* C24: the call on a readable file returns normally however many lines
\* the file has; the names of the store are those of the valid lines among
\* the first MAX_LINES physical lines, blank and comment lines counted, so
\* a name whose valid lines all lie beyond them is not in the store and a
\* value is never taken from a line beyond them.
C24_LineCap ==
  (parse_pc = "returned" /\ parse_file.status = "ok") =>
    /\ parse_out.end = "return"
    /\ ReadLines(parse_file) =
         {k \in 1 .. Len(parse_file.lines) : parse_file.lead + k <= MAX_LINES}
    /\ Keys(parse_out.results) =
         {parse_file.lines[k].name : k \in ValidRead(parse_file)}
    /\ \A k \in BeyondCap(parse_file) :
         LET l == parse_file.lines[k]
         IN  l.kind = "valid" =>
               \/ ~Has(parse_out.results, l.name)
               \/ \E j \in ValidRead(parse_file) :
                    /\ parse_file.lines[j].name = l.name
                    /\ Get(parse_out.results, l.name) = parse_file.lines[j].value

\* MAX_LINES - 1 comment lines, then a: 1 on line MAX_LINES and b: -5 on
\* line MAX_LINES + 1: the call returns the store with a alone.
C24_Witness ==
  /\ parse_pc = "returned"
  /\ parse_file.status = "ok"
  /\ parse_file.lead = MAX_LINES - 1
  /\ parse_file.text = << <<"a", ":", "1">>, <<"b", ":", "-", "5">> >>
  /\ parse_out.end = "return"
  /\ parse_out.results = << <<<<"a">>, 1000>> >>

\* The file is missing, or reading it raises OSError, at open (no line
\* read) or part-way.
ReadError(file) ==
  \/ file.status = "missing"
  \/ file.status = "ioerror" /\ ReadFails(file)

\* C26: when the file is missing or a read error occurs, the call with
\* exit_on_error = False returns the empty mapping and the call with
\* exit_on_error = True exits with status 2.
C26_ErrorsGiveEmpty ==
  (parse_pc = "returned" /\ ReadError(parse_file)) =>
    IF arg_exit_on_error
    THEN parse_out.end = "exit"
    ELSE parse_out.end = "return" /\ parse_out.results = <<>>

\* The read failed after the line a: 1 and the call, with exit_on_error
\* False, returned the store holding a.
C26_Witness ==
  /\ parse_pc = "returned"
  /\ ~arg_exit_on_error
  /\ parse_file.status = "ioerror"
  /\ parse_file.lead = 0
  /\ parse_file.text = << <<"a", ":", "1">> >>
  /\ parse_out.end = "return"
  /\ parse_out.results = << <<<<"a">>, 1000>> >>

(***************************************************************************)
(* Properties of the aggregator command (checked under SpecAggregate).     *)
(***************************************************************************)
\* The input files that are read and yield a measurement, in order.
Yielding ==
  SelectSeq(files, LAMBDA f : f.status = "ok" /\ StoreOf(f) # <<>>)

YieldingRuns == [k \in 1 .. Len(Yielding) |-> StoreOf(Yielding[k])]

\* C18: when the command has ended, if some input file yields a measurement
\* the output file holds the per-name minimum over the yielding files, every
\* other file being skipped; if none does, the exit status is 2 and no
\* output file is written.
C18_SkipsBadFiles ==
  agg_pc = "done" =>
    IF Yielding # <<>>
    THEN \E order \in Orders(all_names(YieldingRuns)) :
           output = Some(write_results(select_minimum(YieldingRuns, order),
                                       Len(Yielding)))
    ELSE agg_status = Some(2) /\ output = None

\* A missing file is skipped and the minimum of the other file is written.
C18_Witness ==
  /\ agg_pc = "done"
  /\ Len(files) = 2
  /\ files[1].status = "missing"
  /\ files[2].status = "ok"
  /\ agg_status = Some(0)
  /\ output # None
  /\ Val(output).text =
       HeaderLines \o << <<"a", ":", " ", "1", ".", "0", "0">>,
                         <<"b", ":", " ", "-", "5", ".", "0", "0">> >>

(***************************************************************************)
(* Properties of select_minimum (checked under SpecSelect).                *)
(***************************************************************************)
RunsWith(n) == {k \in 1 .. Len(runs) : Has(runs[k], n)}

Exited == cli_pc = "exit"

BadThreshold ==
  \/ threshold <= 0
  \/ relaxed_threshold # None /\ Val(relaxed_threshold) <= 0

Unreadable(file) == file.status # "ok"

EmptyStore(file) == parse_benchmark_file(file, TRUE).results = <<>>

Compared == report # NoReport

\* C6: the command exits with 1 iff the comparison found a regression, with
\* 0 iff the thresholds were valid, both stores were loaded non-empty and
\* there is no regression, and with 2 whenever a threshold is <= 0, an
\* input file is missing or unreadable or a store is empty after parsing;
\* a run that reached the comparison never exits with 2.
C6_ExitStatus ==
  Exited =>
    LET regression == Compared /\ report.regressions # <<>>
    IN  /\ exit_status = Some(1) <=> regression
        /\ exit_status = Some(0) <=>
             /\ ~BadThreshold
             /\ baseline # <<>> /\ current # <<>>
             /\ ~regression
        /\ ( \/ BadThreshold
             \/ Unreadable(baseline_file) \/ Unreadable(current_file)
             \/ EmptyStore(baseline_file) \/ EmptyStore(current_file) ) =>
             exit_status = Some(2)
        /\ Compared => exit_status # Some(2)

\* A run whose current file cannot be decoded ends with status 1 although
\* nothing was compared.
C6_Witness ==
  /\ Exited
  /\ ~BadThreshold
  /\ baseline_file.status = "ok"
  /\ baseline # <<>>
  /\ current_file.status = "undecodable"
  /\ ~Compared
  /\ exit_status = Some(1)

\* The names that can fail the gate: both values > 0 and the delta above
\* the threshold that applies to the name.
RegressedNames ==
  {n \in ComparedNames : ScaledDelta(n) > RuleThreshold(n) * Get(baseline, n)}

\* C33: the command exits with status 1 only if some name has positive
\* values in both stores and a delta above its effective threshold; a run
\* that compared stores without such a name exits with status 0, whatever
\* names are missing, new, improved or skipped.
C33_FailsOnlyOnRegression ==
  Exited =>
    /\ exit_status = Some(1) => RegressedNames # {}
    /\ (Compared /\ RegressedNames = {}) => exit_status = Some(0)

\* A run whose baseline file cannot be decoded ends with status 1 before
\* any store is loaded: no name has regressed.
C33_Witness ==
  /\ Exited
  /\ ~BadThreshold
  /\ baseline_file.status = "undecodable"
  /\ baseline = <<>>
  /\ current = <<>>
  /\ RegressedNames = {}
  /\ exit_status = Some(1)

(***************************************************************************)
(* Algebraic properties of select_minimum (under SpecSelectAny).           *)
(***************************************************************************)
\* Two stores are the same mapping: the same names with the same values,
\* whatever the insertion order.  A nan that is carried through is the
\* same value.
SameStore(d1, d2) ==
  /\ Keys(d1) = Keys(d2)
  /\ \A n \in Keys(d1) : Get(d1, n) = Get(d2, n)

\* select_minimum(rs) is the store m, whatever the iteration order of the
\* name set.
Selects(rs, m) ==
  \A order \in Orders(all_names(rs)) : SameStore(select_minimum(rs, order), m)

\* The runs given in any other order yield the same store.
PermutationsAgree == \A p \in Reorderings(runs) : Selects(p, minimum)

\* select_minimum([select_minimum(runs)]) is select_minimum(runs).
Idempotent == Selects(<<minimum>>, minimum)

\* No value of the store m is above the value of the store m0.
NotAbove(m, m0) == \A n \in Keys(m0) : ~FloatLt(Get(m0, n), Get(m, n))

\* The runs that can be appended.
FurtherRuns == Dicts(RunNames, AnyRunValues, MaxKeys)

\* A further run does not increase the value of any name.
FurtherRunNotAbove ==
  \A r \in FurtherRuns :
    \A order \in Orders(all_names(runs \o <<r>>)) :
      NotAbove(select_minimum(runs \o <<r>>, order), minimum)

\* No run gives a name the value nan.
NoNaNValue ==
  \A k \in 1 .. Len(runs) : \A j \in 1 .. Len(runs[k]) : runs[k][j][2] # NaN

\* C37 as stated: the result of select_minimum is the same for every
\* order of the runs, is a fixed point of select_minimum, and no value of
\* it increases when a run is appended.
C37_OrderIndependentIdempotent ==
  sel_pc = "returned" =>
    /\ PermutationsAgree
    /\ Idempotent
    /\ FurtherRunNotAbove

\* C37 for the runs it holds for: the order of the runs does not matter
\* when no value is nan; the result is a fixed point and is not increased
\* by a further run in every case.
C37_OrderIndependentWithoutNaN ==
  sel_pc = "returned" =>
    /\ NoNaNValue => PermutationsAgree
    /\ Idempotent
    /\ FurtherRunNotAbove

\* Two runs without nan that give a the values 100 and 90, and only the
\* first has b: the minimum of a is that of the second run.
C37_Witness ==
  /\ sel_pc = "returned"
  /\ NoNaNValue
  /\ Len(runs) = 2
  /\ Has(runs[1], "a") /\ Has(runs[2], "a")
  /\ Has(runs[1], "b") /\ ~Has(runs[2], "b")
  /\ Get(runs[1], "a") = 100
  /\ Get(runs[2], "a") = 90
  /\ Get(minimum, "a") = 90
  /\ Get(minimum, "b") = Get(runs[1], "b")

(***************************************************************************)
(* Properties of the latency statistics (under SpecStatistics).            *)
(***************************************************************************)
\* The recorded samples in ms.
RecordedMs == {all_latencies[i] \div 1000000 : i \in 1 .. Len(all_latencies)}

\* C35: a BenchmarkResult with at least one successful sample has
\* min <= p50 <= p90 <= p95 <= p99 <= max, each of the six is the value of
\* a recorded sample, and min and max are the least and the greatest sample.
C35_LatencyFieldsOrdered ==
  (main_pc = "done" /\ result.total_requests >= 1) =>
    /\ result.min_ms <= result.p50_ms
    /\ result.p50_ms <= result.p90_ms
    /\ result.p90_ms <= result.p95_ms
    /\ result.p95_ms <= result.p99_ms
    /\ result.p99_ms <= result.max_ms
    /\ {result.min_ms, result.p50_ms, result.p90_ms, result.p95_ms,
        result.p99_ms, result.max_ms} \subseteq RecordedMs
    /\ \A v \in RecordedMs : result.min_ms <= v /\ v <= result.max_ms

\* 101 distinct samples recorded in descending order: the six fields are
\* six different samples.
C35_Witness ==
  /\ main_pc = "done"
  /\ result.total_requests = 101
  /\ all_latencies[1] > all_latencies[2]
  /\ result.min_ms < result.p50_ms
  /\ result.p50_ms < result.p90_ms
  /\ result.p90_ms < result.p95_ms
  /\ result.p95_ms < result.p99_ms
  /\ result.p99_ms < result.max_ms

(***************************************************************************)
(* Properties of the gate on the aggregated store (under SpecGate).        *)
(***************************************************************************)
\* The names compare_benchmarks reports as regressions of the store cur.
RegressionsAgainst(cur) ==
  EntryNames(compare_benchmarks(baseline, cur, threshold, relaxed_threshold,
                                relaxed_benchmarks).regressions)

\* C34: a name that is a regression when the baseline is compared with
\* select_minimum(runs) is a regression when the baseline is compared with
\* any single run that contains it; the value compared is a value of one of
\* those runs.
C34_MinimumNotStricter ==
  (cli_pc = "returned" /\ sel_pc = "returned") =>
    /\ current = minimum
    /\ \A n \in EntryNames(report.regressions) :
         /\ \A k \in 1 .. Len(runs) :
              Has(runs[k], n) => n \in RegressionsAgainst(runs[k])
         /\ \E k \in 1 .. Len(runs) :
              Has(runs[k], n) /\ Get(runs[k], n) = Get(minimum, n)

\* Two runs: a regresses in both and in the minimum; b regresses in the
\* second run alone and not in the minimum.
C34_Witness ==
  /\ cli_pc = "returned"
  /\ sel_pc = "returned"
  /\ relaxed_threshold = None
  /\ Len(runs) = 2
  /\ \A k \in 1 .. 2 : Has(runs[k], "a") /\ Has(runs[k], "b")
  /\ Get(runs[1], "a") = 160 /\ Get(runs[2], "a") = 125
  /\ Get(runs[1], "b") = 100 /\ Get(runs[2], "b") = 125
  /\ EntryNames(report.regressions) = {"a"}
  /\ RegressionsAgainst(runs[2]) = {"a", "b"}

(***************************************************************************)
(* Properties of the commands' configuration checks (under SpecConfig).    *)
(***************************************************************************)
\* The relaxed-benchmark list has an empty item between or beside commas.
MalformedRelaxed ==
  /\ arg_relaxed_benchmarks # None
  /\ Len(Val(arg_relaxed_benchmarks)) > 1
  /\ \E k \in 1 .. Len(Val(arg_relaxed_benchmarks)) :
       Val(arg_relaxed_benchmarks)[k] = ""

\* The client-count list has an empty or a non-positive item.
BadClients ==
  \E k \in 1 .. Len(clients) :
    \/ strip(clients[k]) = <<>>
    \/ int(clients[k]) # None /\ Val(int(clients[k])) <= 0

\* The comparator command has not gone past its checks: it read no file.
ComparatorStopped ==
  /\ cli_pc \in {"validate", "exit"}
  /\ cli_pc = "exit" => exit_status = Some(2)
  /\ baseline = <<>> /\ current = <<>> /\ report = NoReport

\* The load command has not gone past its checks: it sent no request.
LoadStopped ==
  /\ rps_pc \in {"clients", "exit"}
  /\ rps_pc = "exit" => rps_status = Some(1)
  /\ ~contacted

\* C19 as stated: with a threshold <= 0 or a malformed relaxed-benchmark
\* list the comparator command exits before reading a file, and with an
\* empty or non-positive client count the load command exits before sending
\* a request.
C19_ConfigErrorsFatal ==
  /\ (cli_pc # "idle" /\ (BadThreshold \/ MalformedRelaxed)) =>
       ComparatorStopped
  /\ (rps_pc # "idle" /\ BadClients) => LoadStopped

\* C19, amended: with a threshold <= 0 the comparator command exits with 2
\* before reading a file, and with an empty or non-positive client count the
\* load command exits with 1 before sending a request; a relaxed-benchmark
\* list is never rejected, its empty items are dropped.
C19_CheckedConfigErrorsFatal ==
  /\ (cli_pc # "idle" /\ BadThreshold) => ComparatorStopped
  /\ (rps_pc # "idle" /\ BadClients) => LoadStopped
  /\ (cli_pc \notin {"idle", "validate"} /\ ~BadThreshold) =>
       relaxed_benchmarks = ParseRelaxed(arg_relaxed_benchmarks)

\* The load command, given the counts 1 and 0 and a server that answers,
\* has exited without contacting it.
C19_Witness ==
  /\ rps_pc = "exit"
  /\ clients = << <<"1">>, <<"0">> >>
  /\ server_up
  /\ rps_status = Some(1)
  /\ ~contacted

(***************************************************************************)
(* Result of run_benchmark without samples (checked under Spec).           *)
(***************************************************************************)
\* C12: when no measurement call succeeded, also with num_requests = 0,
\* run_benchmark still returns: the result has throughput 0, sample count 0
\* and every latency field 0, and its error count is the number of failed
\* measurement calls.
C12_ZeroSamples ==
  /\ (main_pc = "result" /\ all_latencies = <<>>) => ENABLED Return
  /\ (main_pc = "done" /\ all_latencies = <<>>) =>
       /\ result.rps = 0 /\ result.total_requests = 0
       /\ result.p50_ms = 0 /\ result.p90_ms = 0
       /\ result.p95_ms = 0 /\ result.p99_ms = 0
       /\ result.min_ms = 0 /\ result.max_ms = 0
       /\ result.errors = failures["measure"]
       /\ failures["measure"] = num_requests

C12_Witness ==
  /\ main_pc = "done"
  /\ num_requests = 2
  /\ all_latencies = <<>>
  /\ result.total_requests = 0
  /\ result.errors = 2

(***************************************************************************)
(* Properties of percentile (checked under SpecPercentile).                *)
(***************************************************************************)
\* C11: for k >= 1 ascending samples percentile returns the element at
\* index min(floor(k * p / 100), k - 1) counted from 0, an element of the
\* sequence (no interpolation); p50 of ten samples is the sixth, p99 the
\* last; for no samples it returns 0.
C11_NearestRank ==
  pct_pc = "returned" =>
    LET k == Len(samples)
        fl == CHOOSE q \in 0 .. k : q * 100 <= k * pct /\ k * pct < (q + 1) * 100
    IN  /\ k = 0 => pct_value = 0
        /\ k >= 1 =>
             /\ pct_value = samples[(IF fl <= k - 1 THEN fl ELSE k - 1) + 1]
             /\ \E i \in 1 .. k : pct_value = samples[i]
        /\ (k = 10 /\ pct = 50) => pct_value = samples[6]
        /\ (k = 10 /\ pct = 99) => pct_value = samples[10]

C11_Witness ==
  /\ pct_pc = "returned"
  /\ samples = <<1, 2, 3, 4, 5, 6, 7, 8, 9, 10>>
  /\ pct = 50
  /\ pct_value = 6

(***************************************************************************)
(* Further properties of run_benchmark (checked under Spec).               *)
(***************************************************************************)
\* C7: the returned error count is the number of measurement calls that
\* failed, whatever failed during warmup; the counter is zero when the
\* timer is about to start, with every warmup worker finished and no
\* measurement worker started.
C7_WarmupErrorsExcluded ==
  /\ main_pc = "done" => result.errors = failures["measure"]
  /\ main_pc = "start_timer" =>
       /\ errors = 0
       /\ \A w \in PhaseWorkers("warmup") : pc[w] \in {"absent", "done"}
       /\ \A w \in PhaseWorkers("measure") : ~Spawned(w)

C7_Witness ==
  /\ main_pc = "done"
  /\ failures["warmup"] = 2
  /\ failures["measure"] = 1
  /\ result.errors = 1

\* C8: no call is attempted more than twice; a retry happens only after
\* exactly one failed attempt and on a closed connection; a transport error
\* reaches the worker only after the one retry, that is after two attempts.
C8_RetryOnce ==
  \A w \in Workers :
    /\ att[w] <= 2
    /\ pc[w] = "retry" => att[w] = 1 /\ conn[w] = "none"
    /\ (pc[w] = "except" /\ IsTransportError(exc[w])) => att[w] = 2

C8_Witness ==
  \E w \in PhaseWorkers("measure") :
    /\ pc[w] = "except"
    /\ att[w] = 4
    /\ exc[w] = "disconnect"

InIncrement(ph) ==
  Cardinality({w \in PhaseWorkers(ph) : pc[w] \in {"except", "store"}})

\* C9: the counter is written only by the holder of errors_lock, the value
\* an increment read is still the counter's value when it writes, and in
\* each phase the counter plus the failures not yet counted equals the
\* failed calls of the phase; so the reported count misses no failure.
C9_NoLostIncrement ==
  /\ \A w \in Workers :
       pc[w] = "store" => errors_lock = w /\ tmp[w] = errors
  /\ main_pc \in {"warmup_submit", "warmup_join"} =>
       errors + InIncrement("warmup") = failures["warmup"]
  /\ main_pc \in {"submit", "collect", "result"} =>
       errors + InIncrement("measure") = failures["measure"]
  /\ main_pc = "done" => result.errors = errors

C9_Witness ==
  /\ main_pc = "collect"
  /\ \E v, w \in PhaseWorkers("measure") :
       v # w /\ pc[v] = "store" /\ pc[w] = "except"

\* C10: while a measurement worker exists, or once the timer has been
\* started, every warmup worker has returned and its connection is closed.
C10_PhaseBarrier ==
  ((\E w \in PhaseWorkers("measure") : Spawned(w)) \/ timer # "unset") =>
    \A w \in PhaseWorkers("warmup") :
      /\ pc[w] \in {"absent", "done"}
      /\ warmup_requests > 0 => pc[w] = "done"
      /\ conn[w] = "none"

C10_Witness ==
  /\ warmup_requests > 0
  /\ num_clients = 2
  /\ \A w \in PhaseWorkers("warmup") : pc[w] = "done"
  /\ \E w \in PhaseWorkers("measure") : pc[w] = "retry"

\* C21 as stated: a call that failed with a non-transport error was
\* attempted exactly once.
C21_FaultAttemptedOnce ==
  \A w \in Workers :
    (pc[w] \in {"except", "store"} /\ ~IsTransportError(exc[w])) => att[w] = 1

\* C21, amended: a call whose first attempt fails with a non-transport
\* error goes to the except clause after that one attempt, on the connection
\* it used, without a sample; the except clause adds exactly 1 to errors,
\* records no sample and returns the worker to its loop with the calls it
\* has left.
C21_FirstAttemptFault ==
  [][\A w \in Workers :
       /\ (pc[w] = "loop" /\ pc'[w] = "except") =>
            /\ ~IsTransportError(exc'[w])
            /\ att'[w] = 1
            /\ conn'[w] = "open"
            /\ local_latencies'[w] = local_latencies[w]
            /\ errors' = errors
       /\ (pc[w] = "except" /\ pc'[w] # "except") =>
            /\ pc'[w] = "store"
            /\ errors' = errors
            /\ conn'[w] = conn[w]
            /\ local_latencies'[w] = local_latencies[w]
       /\ (pc[w] = "store" /\ pc'[w] # "store") =>
            /\ pc'[w] = "loop"
            /\ errors' = errors + 1
            /\ conn'[w] = conn[w]
            /\ local_latencies'[w] = local_latencies[w]
            /\ todo'[w] = todo[w]]_vars

\* A measurement call failed with a Fault at its first attempt, on a
\* connection that had served an earlier call.
C21_Witness ==
  \E w \in PhaseWorkers("measure") :
    /\ pc[w] = "except"
    /\ exc[w] = "fault"
    /\ att[w] = 1
    /\ conn[w] = "open"
    /\ Len(local_latencies[w]) = 1

\* Calls worker w has issued so far: iterations of its for loop begun.
Issued(w) == requests_per_worker[w] - todo[w]

WarmupRunning == main_pc \in {"start", "warmup_submit", "warmup_join"}

\* C23: with warmup_requests > 0 every warmup worker is given
\* max(1, warmup_requests // num_clients) calls, returns only after it has
\* issued all of them, whatever failed, and all num_clients of them have
\* returned when the warmup is over; a warmup worker never holds a sample
\* and no sample is merged during the warmup; with warmup_requests = 0 no
\* warmup worker exists, so no warmup call is issued.
C23_WarmupCalls ==
  /\ \A w \in PhaseWorkers("warmup") :
       /\ local_latencies[w] = <<>>
       /\ warmup_requests = 0 => pc[w] = "absent" /\ Issued(w) = 0
       /\ pc[w] # "absent" =>
            /\ requests_per_worker[w] = Max(1, warmup_requests \div num_clients)
            /\ requests_per_worker[w] >= 1
            /\ Issued(w) \in 0 .. requests_per_worker[w]
       /\ pc[w] = "done" => Issued(w) = requests_per_worker[w]
       /\ (~WarmupRunning /\ warmup_requests > 0) => pc[w] = "done"
  /\ WarmupRunning => all_latencies = <<>>
  /\ warmup_requests = 0 => failures["warmup"] = 0

\* A run with one warmup request for two clients has returned: each warmup
\* worker issued one call, both calls failed, and the measurement has its
\* two samples.
C23_Witness ==
  /\ main_pc = "done"
  /\ warmup_requests = 1
  /\ num_clients = 2
  /\ \A w \in PhaseWorkers("warmup") : pc[w] = "done" /\ Issued(w) = 1
  /\ failures["warmup"] = 2
  /\ result.total_requests = 2
  /\ result.errors = 0

\* Samples held by the measurement workers 0 .. n - 1.
RECURSIVE SumSamples(_)
SumSamples(n) ==
  IF n = 0 THEN 0
  ELSE Len(local_latencies[<<"measure", n - 1>>]) + SumSamples(n - 1)

\* Calls issued by the measurement workers 0 .. n - 1.
RECURSIVE SumIssued(_)
SumIssued(n) ==
  IF n = 0 THEN 0 ELSE Issued(<<"measure", n - 1>>) + SumIssued(n - 1)

\* Samples of the collected workers among 0 .. n - 1.
RECURSIVE SumCollected(_)
SumCollected(n) ==
  IF n = 0 THEN 0
  ELSE (IF <<"measure", n - 1>> \in collected
        THEN Len(local_latencies[<<"measure", n - 1>>]) ELSE 0)
         + SumCollected(n - 1)

\* Measurement calls issued that have neither returned nor raised yet.
InCall ==
  Cardinality({w \in PhaseWorkers("measure") : pc[w] \in {"retry", "again"}})

\* C27: at every moment the samples of the measurement workers are as many
\* as the measurement calls that have returned (the calls issued less those
\* that raised and those still in progress), so a call gives a sample iff
\* it succeeded, and one only; the merged list holds the samples of the
\* collected workers, and the returned total_requests and rps (per unit of
\* elapsed time) are the number of measurement calls that succeeded.
C27_SampleIffSuccess ==
  /\ SumSamples(num_clients)
       = SumIssued(num_clients) - failures["measure"] - InCall
  /\ \A w \in PhaseWorkers("measure") : Len(local_latencies[w]) <= Issued(w)
  /\ Len(all_latencies) = SumCollected(num_clients)
  /\ main_pc = "done" =>
       /\ result.total_requests = num_requests - failures["measure"]
       /\ result.total_requests = Len(all_latencies)
       /\ result.rps = result.total_requests

\* One client made two measurement calls: one failed, one succeeded, and
\* the result counts one request.
C27_Witness ==
  /\ main_pc = "done"
  /\ num_clients = 1
  /\ num_requests = 2
  /\ failures["measure"] = 1
  /\ all_latencies = local_latencies[<<"measure", 0>>]
  /\ Len(all_latencies) = 1
  /\ result.total_requests = 1
  /\ result.rps = 1

\* Calls assigned to the measurement workers 0 .. n - 1 and not yet issued.
RECURSIVE SumTodo(_)
SumTodo(n) ==
  IF n = 0 THEN 0 ELSE todo[<<"measure", n - 1>>] + SumTodo(n - 1)

\* C28: once every measurement worker is submitted, each of the
\* num_requests calls is exactly one of: not issued yet, in progress, a
\* sample, an error counted, an error about to be counted; when the run
\* returns, successful samples plus reported errors are num_requests.
C28_EveryCallAccounted ==
  /\ (AllSubmitted /\ main_pc # "done") =>
       SumTodo(num_clients) + InCall + SumSamples(num_clients)
         + errors + InIncrement("measure") = num_requests
  /\ main_pc \in {"result", "done"} =>
       Len(all_latencies) + errors = num_requests
  /\ main_pc = "done" =>
       /\ result.total_requests + result.errors = num_requests
       /\ result.total_requests >= 0
       /\ result.errors >= 0

\* Two clients, one call each: one call failed, the other succeeded after
\* failed warmup calls, and the run returned one sample and one error.
C28_Witness ==
  /\ main_pc = "done"
  /\ num_clients = 2
  /\ num_requests = 2
  /\ failures["warmup"] > 0
  /\ result.total_requests = 1
  /\ result.errors = 1

\* C29: a measurement worker exists only while the timer is running or
\* stopped; the timer is stopped only when every measurement worker has
\* returned and its samples are in the merged list; the merged list is
\* empty until the timer runs, and it changes only by a step of the
\* coordinating thread in its collection loop, which appends the whole list
\* of one returned worker and moves no worker.
C29_TimerSpansWorkers ==
  /\ [](/\ (\E w \in PhaseWorkers("measure") : Spawned(w)) => timer # "unset"
        /\ timer = "unset" => all_latencies = <<>>
        /\ main_pc \in {"start_timer", "submit"} => all_latencies = <<>>
        /\ timer = "stopped" =>
             /\ \A w \in PhaseWorkers("measure") : pc[w] = "done"
             /\ collected = PhaseWorkers("measure")
             /\ Len(all_latencies) = SumSamples(num_clients)
        /\ main_pc \in {"result", "done"} => timer = "stopped")
  /\ [][all_latencies' # all_latencies =>
          /\ main_pc = "collect" /\ main_pc' = "collect"
          /\ timer = "running" /\ timer' = "running"
          /\ pc' = pc /\ local_latencies' = local_latencies
          /\ \E w \in PhaseWorkers("measure") \ collected :
               /\ pc[w] = "done"
               /\ collected' = collected \cup {w}
               /\ all_latencies' = all_latencies \o local_latencies[w]]_vars

\* The timer is running, one measurement worker has returned and its
\* sample is merged while the other worker is still in a call.
C29_Witness ==
  /\ timer = "running"
  /\ main_pc = "collect"
  /\ num_clients = 2
  /\ Len(all_latencies) = 1
  /\ collected = {<<"measure", 1>>}
  /\ pc[<<"measure", 0>>] = "retry"

\* The workers that are running: invoked and not yet returned.
Running == {w \in Workers : pc[w] \notin {"absent", "done"}}

\* C30: no two worker invocations have the same transport, so the
\* connection a worker sends on is the one of its own transport; a
\* transport holds one connection or none, none before its worker is
\* invoked and after it has returned, and none when its worker is about to
\* reconnect (the old connection is closed before the retry opens one); a
\* connection is open only in the transport of a running worker that has
\* issued a call.
C30_OwnConnection ==
  /\ \A v, w \in Workers : v # w => transport(v) # transport(w)
  /\ \A w \in Workers :
       /\ conn[transport(w)] \in {"none", "open"}
       /\ w \notin Running => conn[transport(w)] = "none"
       /\ pc[w] \in {"retry", "again"} => conn[transport(w)] = "none"
       /\ conn[transport(w)] = "open" => w \in Running /\ Issued(w) > 0

\* Both measurement workers are running: one holds the connection its
\* second call goes out on, the other has closed its connection and is
\* about to reconnect.
C30_Witness ==
  /\ num_clients = 2
  /\ pc[<<"measure", 0>>] = "loop"
  /\ conn[transport(<<"measure", 0>>)] = "open"
  /\ Issued(<<"measure", 0>>) = 1
  /\ pc[<<"measure", 1>>] = "retry"
  /\ conn[transport(<<"measure", 1>>)] = "none"

\* C32: when the coordinating thread is past the measurement, and when
\* run_benchmark has returned, no transport of a warmup or measurement
\* worker holds a connection; a connection is opened only by an attempt of
\* the worker that owns the transport, into an empty slot (the slot of a
\* worker about to reconnect is empty: the old connection was closed), and
\* the step by which a worker returns leaves its slot empty, after which
\* the slot never changes.
C32_AllClosedAtReturn ==
  /\ [](/\ main_pc \in {"result", "done"} =>
             \A w \in Workers : conn[transport(w)] = "none"
        /\ ~WarmupRunning =>
             \A w \in PhaseWorkers("warmup") : conn[transport(w)] = "none"
        /\ make_connection("open") = "open")
  /\ [][\A w \in Workers :
          /\ (conn[transport(w)] = "none" /\ conn'[transport(w)] = "open") =>
               /\ pc[w] \in {"loop", "retry", "again"}
               /\ pc'[w] \in {"loop", "except"}
          /\ (pc[w] # "done" /\ pc'[w] = "done") =>
               pc[w] = "loop" /\ conn'[transport(w)] = "none"
          /\ pc[w] = "done" =>
               pc'[w] = "done" /\ conn'[transport(w)] = "none"]_vars

\* The run has returned with every slot empty after a measurement worker
\* had reconnected and kept the new connection for a second call, which
\* failed.
C32_Witness ==
  /\ main_pc = "done"
  /\ num_clients = 1
  /\ num_requests = 2
  /\ warmup_requests > 0
  /\ failures["measure"] = 1
  /\ Len(all_latencies) = 1
  /\ \A w \in Workers : conn[transport(w)] = "none"

(***************************************************************************)
(* Termination of run_benchmark (checked under SpecFair).                  *)
(***************************************************************************)
\* C31: under fair scheduling, every run reaches the return of a
\* BenchmarkResult with every submitted warmup and measurement worker
\* returned, none of them waiting for or holding errors_lock, and every
\* assigned call made.
C31_Terminates ==
  <>(/\ main_pc = "done"
     /\ result # NoResult
     /\ \A w \in Workers : pc[w] \in {"absent", "done"}
     /\ \A w \in PhaseWorkers("measure") : pc[w] = "done" /\ todo[w] = 0)

\* The run has returned after two workers contended for errors_lock in the
\* warmup and in the measurement: every call of both phases failed.
C31_Witness ==
  /\ main_pc = "done"
  /\ result # NoResult
  /\ num_clients = 2
  /\ num_requests = 2
  /\ warmup_requests = 1
  /\ failures["warmup"] = 2
  /\ failures["measure"] = 2
  /\ result.errors = 2
  /\ \A w \in PhaseWorkers("measure") : pc[w] = "done"

(***************************************************************************)
(* Properties of run_scenario (checked under SpecScenario).                *)
(***************************************************************************)
\* The returns logged so far, in order.
Returns == SelectSeq(sc_log, LAMBDA e : e[1] = "return")

\* C22: the k-th call of run_benchmark is for the k-th entry of
\* client_counts and starts only when the call before it has returned, so
\* the log alternates start and return, level by level in list order; when
\* run_scenario has returned there was one run per entry and the mapping
\* holds, for each distinct level, the result of the last run for it.
C22_OneLevelAtATime ==
  /\ \A k \in 1 .. Len(sc_log) :
       /\ sc_log[k][1] = (IF k % 2 = 1 THEN "start" ELSE "return")
       /\ sc_log[k][2] = sc_counts[(k + 1) \div 2]
  /\ sc_pc = "returned" =>
       /\ Len(sc_log) = 2 * Len(sc_counts)
       /\ Keys(sc_results) = {sc_counts[k] : k \in 1 .. Len(sc_counts)}
       /\ Len(sc_results) = Cardinality(Keys(sc_results))
       /\ \A n \in Keys(sc_results) :
            \E k \in 1 .. Len(Returns) :
              /\ Returns[k][2] = n
              /\ Returns[k][3] = Get(sc_results, n)
              /\ \A j \in k + 1 .. Len(Returns) : Returns[j][2] # n

\* Levels 2, 1, 2: three runs, two keys, and level 2 holds the result of
\* the third run, which differs from that of the first.
C22_Witness ==
  /\ sc_pc = "returned"
  /\ sc_counts = <<2, 1, 2>>
  /\ Len(sc_results) = 2
  /\ Returns[1][3] # Returns[3][3]
  /\ Get(sc_results, 2) = Returns[3][3]

(***************************************************************************)
(* Properties of the round trip (checked under SpecRoundTrip).             *)
(***************************************************************************)
\* The value rounded to two decimal places: the nearest hundredth, the even
\* one of two equally near; in thousandths.
Round2(v) ==
  IF v = NaN THEN NaN
  ELSE CHOOSE w \in {10 * h : h \in (v \div 10) - 1 .. (v \div 10) + 1} :
         /\ 2 * (IF w > v THEN w - v ELSE v - w) <= 10
         /\ 2 * (IF w > v THEN w - v ELSE v - w) = 10 => (w \div 10) % 2 = 0

RoundTripped ==
  /\ rt_parsed.end = "return"
  /\ Keys(rt_parsed.results) = Keys(rt_results)
  /\ \A n \in Keys(rt_results) :
       /\ Has(rt_parsed.results, n)
       /\ FloatEq(Get(rt_parsed.results, n), Round2(Get(rt_results, n)))

\* C20 as stated: the store parsed from the written file has the names of
\* the store written, each with the original value rounded to two decimals.
C20_RoundTrip == rt_pc = "done" => RoundTripped

\* C20, amended: the same for every store that has no NaN value and, with
\* the seven header lines, no more lines than MAX_LINES.
C20_RoundTripOfFiniteStore ==
  ( /\ rt_pc = "done"
    /\ Len(rt_results) + Len(HeaderLines) <= MAX_LINES
    /\ \A n \in Keys(rt_results) : Get(rt_results, n) # NaN ) =>
    RoundTripped

\* 0.125 came back as 0.12 and 0.375 as 0.38, under the names written.
C20_Witness ==
  /\ rt_pc = "done"
  /\ rt_results = << <<<<"b">>, 125>>, <<<<"a", " ", "b">>, 375>> >>
  /\ rt_parsed.results = << <<<<"a", " ", "b">>, 380>>, <<<<"b">>, 120>> >>

====
